---- MODULE Spec2Model ----
(***************************************************************************)
(* timestore: an append-only, multi-table record store.                    *)
(*                                                                         *)
(* The model follows src/src/writer.rs (Writer::append, Writer::close and   *)
(* read_write_at), src/src/open.rs (open, load_ordered_u64_file, read_file *)
(* and the factories' make) and src/src/reader.rs (Reader::read,           *)
(* Reader::iter, Reader::close, Iter, IoVecIter).                          *)
(* Files are byte sequences; every integer on disk is 8 bytes big-endian.  *)
(* A byte position is 0-based as in the source; sequences are 1-based.     *)
(* An async function is one action per suspension point: whatever the      *)
(* executor runs between two suspensions of a call is enabled there.       *)
(***************************************************************************)
EXTENDS Integers, Sequences, FiniteSets, TLC

(***************************************************************************)
(* Bounds of the model.                                                    *)
(***************************************************************************)
\* No append is accepted once the Writer's length is MaxRecords.
MaxRecords == 3
\* Every specification but SpecChain accepts appends while the Writer's
\* length is below MaxLen, and those that are about the calls' errors and the
\* handles while it is below MaxFew.
MaxLen == 2
MaxFew == 1
\* At most MaxFaults append calls fail, are dropped or die with the process,
\* and at most MaxDrops of them otherwise than by the death of the process.
MaxFaults == 2
MaxDrops == 1
\* At most MaxReaders Reader values exist at a time.
MaxReaders == 2
\* Keys, and the from/to of a range, are drawn from 0..MaxKey.
MaxKey == 2
\* The block alignment of the direct-I/O files (DmaFile::align_up/align_down).
BlockSize == 16

\* The configured tables (tests/simple.rs: tables(vec!["table0", "table1"])).
TableNames == <<"table0", "table1">>
Tables == 1..Len(TableNames)
Keys == 0..MaxKey
\* The keys of the appends of the specifications with faults: two keys are
\* equal, ascending or descending.
LowKeys == 0..(MaxKey - 1)

\* The payload of table t in the c-th value vector: the lengths 0, 1 and 2 all
\* occur, every table has two payloads that differ, and no byte value occurs
\* twice.
Payload(c, t) == [i \in 1..(c + 1 - t) |-> 10 * c + 3 * t + i]
\* The value vectors an append is called with (one payload per table).
ValueChoices == {[t \in Tables |-> Payload(c, t)] : c \in 1..2}
\* The value vector of the n-th append of a behaviour whose appends differ in
\* their keys only: each record has payloads of its own.
ValuesOf(n) == [t \in Tables |-> Payload(n, t)]
\* A byte is a value of 0..255. Uninit is a byte that was never written: it
\* has whichever value of 0..255 the memory held, not the same from one call
\* to the next and not known to the program. It stands for all of them: the
\* model copies it (into a file, into a buffer read back) and never computes
\* with it, and a property that compares bytes says so of known bytes only.
Uninit == 256
Known(bytes) == \A i \in 1..Len(bytes) : bytes[i] \in 0..255
\* DmaFile::alloc_dma_buffer(size) does not initialise the memory it returns:
\* every byte of the buffer is whatever the allocation held.
alloc_dma_buffer(size) == [i \in 1..size |-> Uninit]

VARIABLES
    \* ---- the directory ----
    lengthFile,      \* P/length
    newLengthFile,   \* P/new_length: [exists, data]
    keysFile,        \* P/keys
    offsetsFile,     \* P/<table>/offsets, per table
    dataFile,        \* P/<table>/data, per table
    \* ---- shared in-memory state (Writer, Reader) ----
    opened,          \* the last open() returned Ok
    keys,            \* caos of keys
    table_offsets,   \* caos of end offsets, per table
    write_offsets,   \* Writer.write_offsets
    length,          \* Writer.length
    handles,         \* the file handles the Writer and the Readers hold
    \* ---- the append in progress ----
    ap,
    faults,          \* append calls that failed, were dropped or crashed
    \* ---- reader side ----
    rd,              \* the last Reader::read call and its result
    it,              \* the live Iter
    \* ---- history (not read by the program) ----
    hist,            \* records whose length swap took effect: [key, values]
    seen,            \* records readers could observe: published, or loaded by open
    outcome          \* how the last append call ended

diskVars == <<lengthFile, newLengthFile, keysFile, offsetsFile, dataFile>>
memVars == <<opened, keys, table_offsets, write_offsets, length, handles>>
vars == <<lengthFile, newLengthFile, keysFile, offsetsFile, dataFile,
          opened, keys, table_offsets, write_offsets, length, handles,
          ap, faults, rd, it, hist, seen, outcome>>

(***************************************************************************)
(* Bytes and block-aligned files.                                          *)
(***************************************************************************)
Min(a, b) == IF a < b THEN a ELSE b
Max(a, b) == IF a > b THEN a ELSE b

\* An integer of the model is below 2^31. A u64 decoded from a file can be
\* any value below 2^64: it is held as three digits <<d2, d1, d0>> in base
\* 2^24 (d2 below 2^16), the value being d2 * 2^48 + d1 * 2^24 + d0.
\* The u64 of an integer of the model.
U64(v) == <<0, v \div 16777216, v % 16777216>>
\* a < b on u64 values.
U64Less(a, b) ==
    \/ a[1] < b[1]
    \/ a[1] = b[1] /\ a[2] < b[2]
    \/ a[1] = b[1] /\ a[2] = b[2] /\ a[3] < b[3]
\* The u64 is below 2^31, and then the integer it is.
Fits(w) == w[1] = 0 /\ w[2] < 128
AsInt(w) == w[2] * 16777216 + w[3]

\* u64::to_be_bytes of an integer of the model: the four high bytes of a
\* value below 2^31 are 0.
to_be_bytes(v) ==
    <<0, 0, 0, 0,
      (v \div 16777216) % 256, (v \div 65536) % 256, (v \div 256) % 256, v % 256>>

\* u64::from_be_bytes: the exact value of the eight bytes, as a u64.
from_be_bytes(b) ==
    <<b[1] * 256 + b[2],
      b[3] * 65536 + b[4] * 256 + b[5],
      b[6] * 65536 + b[7] * 256 + b[8]>>

align_down(pos) == (pos \div BlockSize) * BlockSize
align_up(v) == ((v + BlockSize - 1) \div BlockSize) * BlockSize

\* DmaFile::read_at(pos, size): the bytes [pos, pos+size) that exist.
read_at(file, pos, size) == SubSeq(file, pos + 1, Min(pos + size, Len(file)))

\* DmaFile::write_at(buf, pos): buf replaces the bytes from pos on.
write_at(file, buf, pos) ==
    [i \in 1..Max(Len(file), pos + Len(buf)) |->
        IF i > pos /\ i <= pos + Len(buf) THEN buf[i - pos]
        ELSE IF i <= Len(file) THEN file[i] ELSE 0]

\* The size of the buffer read_write_at allocates for data written at pos.
BufSize(data, pos) == align_up((pos - align_down(pos)) + Len(data) + 8)

\* A faulty buffer that leaves the re-read prefix out.
RwBufferNoPrefix(read_buf, data, extra_read_size, buf) ==
    [i \in 1..Len(buf) |->
        IF i > extra_read_size /\ i <= extra_read_size + Len(data)
        THEN data[i - extra_read_size]
        ELSE buf[i]]

\* The buffer read_write_at writes, buf being the buffer as allocated: the
\* re-read prefix, the data, then the bytes the allocation held.
RwBuffer(read_buf, data, extra_read_size, buf) ==
    [i \in 1..Len(buf) |->
        IF i <= extra_read_size THEN read_buf[i]
        ELSE IF i <= extra_read_size + Len(data) THEN data[i - extra_read_size]
        ELSE buf[i]]

\* read_write_at(file, data, pos) with buf the buffer as allocated, of
\* BufSize(data, pos) bytes: [ok, file].
read_write_at(file, data, pos, buf) ==
    LET write_pos == align_down(pos)
        extra_read_size == pos - write_pos
        read_buf == read_at(file, write_pos, extra_read_size)
    IN  IF extra_read_size > 0 /\ Len(read_buf) # extra_read_size
        THEN [ok |-> FALSE, file |-> file]
        ELSE [ok |-> TRUE,
              file |-> write_at(file,
                                RwBuffer(read_buf, data, extra_read_size, buf),
                                write_pos)]

(***************************************************************************)
(* open(): recovery.                                                       *)
(***************************************************************************)
\* 8 * w on u64 values, wrapping at 2^64.
Times8(w) ==
    LET x0 == w[3] * 8
        x1 == w[2] * 8 + x0 \div 16777216
        x2 == w[1] * 8 + x1 \div 16777216
    IN  <<x2 % 65536, x1 % 16777216, x0 % 16777216>>

\* What a call of open() meets in the machine and in the build: memory is
\* the largest number of bytes (a u64) the allocator grants to one
\* allocation, and overflow_checks tells whether the build panics on an
\* integer overflow (debug) or wraps (release).
\* A machine of 16 MiB and one of 2^48 bytes, either build.
Memories == {<<0, 1, 0>>, <<1, 0, 0>>}
Envs == [memory : Memories, overflow_checks : BOOLEAN]
\* The allocations open() makes for a store of the model's bounds (8 bytes
\* per record and file) are granted in every Env and overflow in none.
AnyEnv == [memory |-> <<0, 1, 0>>, overflow_checks |-> TRUE]

\* How a call ends: "ok" (returns Ok), "err" (returns Err), "panic" (panics)
\* or "abort" (a refused allocation aborts the process: nothing is returned
\* and nothing unwinds).
\* read_file(path, len), len a u64: vec![0; len], then read_exact of the
\* first len bytes: [end, buf].
read_file(file, len, env) ==
    IF len[1] >= 32768
    THEN [end |-> "panic", buf |-> <<>>]
    ELSE IF U64Less(env.memory, len)
    THEN [end |-> "abort", buf |-> <<>>]
    ELSE IF ~Fits(len) \/ Len(file) < AsInt(len)
    THEN [end |-> "err", buf |-> <<>>]
    ELSE [end |-> "ok", buf |-> SubSeq(file, 1, AsInt(len))]

\* The loop of load_ordered_u64_file over the 8-byte chunks, from chunk i;
\* prev and vals are u64 values.
RECURSIVE LoadLoop(_, _, _, _, _)
LoadLoop(buf, len, i, prev, vals) ==
    IF i > len \/ 8 * i > Len(buf)
    THEN [end |-> IF Len(vals) = len THEN "ok" ELSE "err", vals |-> vals]
    ELSE LET val == from_be_bytes(SubSeq(buf, 8 * (i - 1) + 1, 8 * i))
         IN  IF U64Less(val, prev)
             THEN [end |-> "err", vals |-> <<>>]
             ELSE LoadLoop(buf, len, i + 1, val, Append(vals, val))

\* load_ordered_u64_file(path, len), len a u64: [end, vals], vals being u64
\* values. len * 8 overflows from 2^61 on; Vec::with_capacity(len) panics
\* from 2^60 on (more than isize::MAX bytes). A read_file that returned Ok
\* with len below 2^60 read len * 8 bytes of a file of the model: len fits.
load_ordered_u64_file(file, len, env) ==
    IF env.overflow_checks /\ len[1] >= 8192
    THEN [end |-> "panic", vals |-> <<>>]
    ELSE LET r == read_file(file, Times8(len), env)
         IN  IF r.end # "ok" THEN [end |-> r.end, vals |-> <<>>]
             ELSE IF len[1] >= 4096 THEN [end |-> "panic", vals |-> <<>>]
             ELSE LoadLoop(r.buf, AsInt(len), 1, U64(0), <<>>)

\* vals.last().copied().unwrap_or(0)
LastOr0(vals) == IF Len(vals) = 0 THEN 0 ELSE vals[Len(vals)]
LastOrU64(vals) == IF Len(vals) = 0 THEN U64(0) ELSE vals[Len(vals)]

\* open(cfg) on the files given:
\* [ok, panic, abort, keys, table_offsets, write_offsets, length], the keys
\* and offsets being u64 values.
OpenFailed ==
    [ok |-> FALSE, panic |-> FALSE, abort |-> FALSE,
     keys |-> <<>>, table_offsets |-> [t \in Tables |-> <<>>],
     write_offsets |-> [t \in Tables |-> U64(0)], length |-> 0]

\* open() does not return: it panics, or the process is aborted.
OpenPanicked == [OpenFailed EXCEPT !.panic = TRUE]
OpenAborted == [OpenFailed EXCEPT !.abort = TRUE]
OpenEnded(end) ==
    IF end = "panic" THEN OpenPanicked
    ELSE IF end = "abort" THEN OpenAborted
    ELSE OpenFailed

\* The first of the calls of open(), in the order made, that did not return
\* Ok: the keys file, then the offsets file of each table.
RECURSIVE FirstEnd(_, _)
FirstEnd(ends, i) ==
    IF i > Len(ends) THEN "ok"
    ELSE IF ends[i] # "ok" THEN ends[i]
    ELSE FirstEnd(ends, i + 1)

\* open(cfg): the count of the length file, the keys, the offsets of each
\* table, then the size of each data file against the table's last offset.
open(lenF, keysF, offsF, dataF, env) ==
    LET lr == read_file(lenF, U64(8), env)
    IN  IF lr.end # "ok" THEN OpenEnded(lr.end)
        ELSE
        LET len == from_be_bytes(lr.buf)
            kr == load_ordered_u64_file(keysF, len, env)
            tr == [t \in Tables |-> load_ordered_u64_file(offsF[t], len, env)]
            end == FirstEnd(<<kr.end>> \o [t \in Tables |-> tr[t].end], 1)
            max_offsets == [t \in Tables |-> LastOrU64(tr[t].vals)]
        IN  IF end # "ok" THEN OpenEnded(end)
            ELSE IF \E t \in Tables :
                        U64Less(U64(Len(dataF[t])), max_offsets[t])
            THEN OpenFailed
            ELSE [ok |-> TRUE, panic |-> FALSE, abort |-> FALSE,
                  keys |-> kr.vals,
                  table_offsets |-> [t \in Tables |-> tr[t].vals],
                  write_offsets |-> max_offsets,
                  length |-> AsInt(len)]

\* The values open() returned fit the integers of the model.
OpenFits(o) ==
    /\ \A i \in 1..Len(o.keys) : Fits(o.keys[i])
    /\ \A t \in Tables : \A i \in 1..Len(o.table_offsets[t]) :
           Fits(o.table_offsets[t][i])

\* What open() returned, as integers of the model.
Loaded(o) ==
    [ok |-> o.ok,
     keys |-> [i \in 1..Len(o.keys) |-> AsInt(o.keys[i])],
     table_offsets |-> [t \in Tables |->
         [i \in 1..Len(o.table_offsets[t]) |-> AsInt(o.table_offsets[t][i])]],
     write_offsets |-> [t \in Tables |-> AsInt(o.write_offsets[t])],
     length |-> o.length]

\* open() on the directory as it is now.
OpenNow == Loaded(open(lengthFile, keysFile, offsetsFile, dataFile, AnyEnv))

\* The length file as open() writes it when it has just been created:
\* a zero-filled buffer of align_up(8) bytes.
FreshLengthFile == [i \in 1..align_up(8) |-> 0]

\* The u64 stored at index i (0-based) of a keys or offsets file.
U64At(file, i) == from_be_bytes(read_at(file, 8 * i, 8))

\* The same as an integer of the model, -1 when the file is too short to
\* hold it.
EntryAt(file, i) ==
    IF Len(file) < 8 * (i + 1) THEN -1 ELSE AsInt(U64At(file, i))

\* The record count stored in the length file.
DiskLength == EntryAt(lengthFile, 0)

(***************************************************************************)
(* What a reopen of the directory would show: the state open() loads and   *)
(* the payload bytes each loaded record resolves to.                       *)
(***************************************************************************)
\* The extent of record i (1-based) in a table's data file: (start, len).
Extent(offs, i) ==
    IF i = 1 THEN <<0, offs[1]>> ELSE <<offs[i - 1], offs[i] - offs[i - 1]>>

\* The view of what open() returned, o, as integers of the model.
ViewFrom(o, dataF) ==
    [ok |-> o.ok, keys |-> o.keys, table_offsets |-> o.table_offsets,
     write_offsets |-> o.write_offsets, length |-> o.length,
     payloads |-> [t \in Tables |->
        [i \in 1..Len(o.table_offsets[t]) |->
            read_at(dataF[t], Extent(o.table_offsets[t], i)[1],
                    Extent(o.table_offsets[t], i)[2])]]]

ViewOf(lenF, keysF, offsF, dataF) ==
    ViewFrom(Loaded(open(lenF, keysF, offsF, dataF, AnyEnv)), dataF)

View == ViewOf(lengthFile, keysFile, offsetsFile, dataFile)

\* The records of a view, as [key, values].
RecordsOf(v) ==
    [i \in 1..Len(v.keys) |->
        [key |-> v.keys[i], values |-> [t \in Tables |-> v.payloads[t][i]]]]

(***************************************************************************)
(* caos: the in-memory append-only sequence, as the specification          *)
(* describes it. A sequence of the model is the published prefix; an       *)
(* index is 0-based as in the source.                                      *)
(***************************************************************************)
None == [some |-> FALSE, val |-> 0]
Some(v) == [some |-> TRUE, val |-> v]

\* The elements of s are in non-decreasing order.
Ascending(s) == \A i \in 1..(Len(s) - 1) : s[i] <= s[i + 1]

\* Reader.position(v): the index of an element equal to v, found by binary
\* search. Which of several equal elements the search finds is not said, and
\* a binary search of a sequence that is not in order may miss an element
\* that is there: position is the set of the results the call may return.
position(s, v) ==
    {Some(i - 1) : i \in {j \in 1..Len(s) : s[j] = v}}
        \cup (IF (\A j \in 1..Len(s) : s[j] # v) \/ ~Ascending(s)
              THEN {None} ELSE {})

\* Reader.next_position(v): the smallest index i with s[i] >= v.
next_position(s, v) ==
    IF \E i \in 1..Len(s) : s[i] >= v
    THEN Some((CHOOSE i \in 1..Len(s) :
                  s[i] >= v /\ \A j \in 1..(i - 1) : s[j] < v) - 1)
    ELSE None

\* Reader.last()
last(s) == IF Len(s) = 0 THEN None ELSE Some(s[Len(s)])

\* Reader.iter_from(i): the length is taken when the iterator is made.
iter_from(s, i) == [i |-> i, end |-> Len(s)]

\* caos::Iter::next: [some, val, iter].
CaosNext(itr, s) ==
    IF itr.i < itr.end
    THEN [some |-> TRUE, val |-> s[itr.i + 1], iter |-> [itr EXCEPT !.i = @ + 1]]
    ELSE [some |-> FALSE, val |-> 0, iter |-> itr]

(***************************************************************************)
(* Reader                                                                  *)
(***************************************************************************)
\* The table names a reader operation is called with.
TableArgs == {TableNames[t] : t \in Tables}

\* table_names.iter().position(|n| table == n): the table's index, 0 for None.
TablePosition(table) ==
    IF \E t \in Tables : TableNames[t] = table
    THEN CHOOSE t \in Tables :
            TableNames[t] = table /\ \A u \in 1..(t - 1) : TableNames[u] # table
    ELSE 0

\* A faulty extent that starts every record at the beginning of the file.
ReadExtentFromZero(offs, pos) ==
    <<0, CaosNext(iter_from(offs, pos), offs).val>>

\* The (pos, len) Reader::read hands to read_at for the record at index pos.
ReadExtent(offs, pos) ==
    IF pos = 0
    THEN <<0, CaosNext(iter_from(offs, 0), offs).val>>
    ELSE LET a == CaosNext(iter_from(offs, pos - 1), offs)
             b == CaosNext(a.iter, offs)
         IN  <<a.val, b.val - a.val>>

\* Reader::read(table, key): [kind, buf], kind one of
\* "unknown_table", "none", "some". p is what self.keys.position(key) returns.
ReaderRead(table, key, p) ==
    LET t == TablePosition(table)
    IN  IF t = 0 THEN [kind |-> "unknown_table", buf |-> <<>>]
        ELSE IF ~p.some THEN [kind |-> "none", buf |-> <<>>]
        ELSE LET e == ReadExtent(table_offsets[t], p.val)
             IN  [kind |-> "some", buf |-> read_at(dataFile[t], e[1], e[2])]

\* A faulty from_caos_and_position that starts from index pos instead of
\* pos - 1.
FromCaosLate(offs, pos) ==
    LET n == CaosNext(iter_from(offs, pos), offs)
    IN  [start |-> n.val, inner |-> n.iter]

\* IoVecIter::from_caos_and_position
from_caos_and_position(offs, pos) ==
    IF pos = 0
    THEN [start |-> 0, inner |-> iter_from(offs, 0)]
    ELSE LET n == CaosNext(iter_from(offs, pos - 1), offs)
         IN  [start |-> n.val, inner |-> n.iter]

\* IoVecIter::next: [some, iovec, io].
IoVecNext(io, offs) ==
    LET e == CaosNext(io.inner, offs)
    IN  IF ~e.some
        THEN [some |-> FALSE, iovec |-> <<0, 0>>, io |-> io]
        ELSE [some |-> TRUE, iovec |-> <<io.start, e.val - io.start>>,
              io |-> [start |-> e.val, inner |-> e.iter]]

NoRead == [op |-> "none", table |-> "", key |-> 0, kind |-> "", buf |-> <<>>,
           n |-> 0]

\* No Iter is alive. ret is what the last Reader::iter call returned; reader
\* is the Reader an Iter was made from (see HandleSet). phase is "opening"
\* while Reader::iter awaits build_existing, "ready" between the calls of the
\* Iter and "reading" while Iter::next awaits read_exact; pending is the
\* record that call has pulled. last is what the last Iter::next call came
\* to ("" before the first). yielded and skipped are history: the records
\* Iter::next returned, and the indices of the records a call pulled and did
\* not return.
NoPending == [index |-> 0, prev |-> 0, key |-> 0, len |-> 0]
NoIterRet(ret) ==
    [live |-> FALSE, ret |-> ret, reader |-> 0, phase |-> "", from |-> 0,
     param_to |-> 0,
     table |-> 0, pos |-> 0, n |-> 0,
     started |-> FALSE, current_key |-> 0, keys |-> iter_from(<<>>, 0),
     streaming |-> FALSE, stream_pos |-> 0,
     stream_io_vecs |-> from_caos_and_position(<<>>, 0),
     table_io_vecs |-> [t \in Tables |-> from_caos_and_position(<<>>, 0)],
     current_table_io_vecs |-> [t \in Tables |-> <<0, 0>>],
     to |-> 0, last |-> "", pending |-> NoPending, yielded |-> <<>>,
     skipped |-> <<>>]
NoIter == NoIterRet("")

(***************************************************************************)
(* Initial state: open() with create_if_not_exists on an empty path, then  *)
(* WriterFactory::make and ReaderFactory::make.                            *)
(***************************************************************************)
NoFile == [exists |-> FALSE, data |-> <<>>]
NoView ==
    [ok |-> FALSE, keys |-> <<>>, table_offsets |-> [t \in Tables |-> <<>>],
     write_offsets |-> [t \in Tables |-> 0], length |-> 0,
     payloads |-> [t \in Tables |-> <<>>]]
NoAppend ==
    [pc |-> "idle", key |-> 0, values |-> [t \in Tables |-> <<>>],
     new_write_offsets |-> [t \in Tables |-> 0], done |-> {}, pre |-> NoView]

\* The file handles. A handle is "none" (not opened), "open", "closed"
\* (DmaFile::close has run) or "dropped" (the last Rc went away without close).
\* writer_factory tells whether the WriterFactory that open() returned is
\* still there (make(self) consumes it), writer whether the Writer value
\* exists, and writer_call is "make" while WriterFactory::make runs and
\* "close" while Writer::close runs. A Reader made by ReaderFactory::make has handles
\* of its own: readers[g] holds the handles of the g-th make, the number of
\* Reader values that share them (the Reader and its clones) and the call in
\* progress on them, "make" or "close".
ReaderGroups == 1..MaxReaders
NoReader == [count |-> 0, call |-> "", files |-> [t \in Tables |-> "none"]]
HandleSet(state) ==
    [writer_factory |-> FALSE,
     writer |-> state = "open",
     writer_call |-> "",
     keys_file |-> state,
     table_offsets_files |-> [t \in Tables |-> state],
     table_files |-> [t \in Tables |-> state],
     readers |-> [g \in ReaderGroups |->
                    IF g = 1 /\ state = "open"
                    THEN [count |-> 1, call |-> "",
                          files |-> [t \in Tables |-> "open"]]
                    ELSE NoReader]]

Init ==
    /\ lengthFile = FreshLengthFile
    /\ newLengthFile = NoFile
    /\ keysFile = <<>>
    /\ offsetsFile = [t \in Tables |-> <<>>]
    /\ dataFile = [t \in Tables |-> <<>>]
    /\ opened = TRUE
    /\ keys = <<>>
    /\ table_offsets = [t \in Tables |-> <<>>]
    /\ write_offsets = [t \in Tables |-> 0]
    /\ length = 0
    /\ handles = HandleSet("open")
    /\ ap = NoAppend
    /\ faults = 0
    /\ rd = NoRead
    /\ it = NoIter
    /\ hist = <<>>
    /\ seen = <<>>
    /\ outcome = "none"

(***************************************************************************)
(* Writer::append, one action per suspension point.                        *)
(***************************************************************************)
\* futures::future::try_join_all: completes when every future has.
try_join_all(done) == done = Tables

\* The pcs at which an awaited I/O call can return an error that append
\* propagates (the remove of new_length is `.ok()`: its error is ignored,
\* see RemoveNewLength).
ErrorPcs == {"data", "offsets", "key", "key_sync", "build_sink", "write_all",
             "sync", "close", "rename"}

\* append is called: arity check passed, new_write_offsets computed, the
\* data writes submitted.
AppendStart(key, values) ==
    /\ opened
    /\ handles.writer
    /\ ap.pc = "idle"
    /\ length < MaxRecords
    /\ ap' = [pc |-> "data", key |-> key, values |-> values,
              new_write_offsets |->
                  [t \in Tables |-> write_offsets[t] + Len(values[t])],
              done |-> {}, pre |-> View]
    /\ rd' = NoRead
    /\ UNCHANGED <<diskVars, memVars, faults, it, hist, seen, outcome>>

\* The pc after one future of a parallel batch has completed.
AfterJoin(t, next) ==
    IF try_join_all(ap.done \cup {t})
    THEN [ap EXCEPT !.pc = next, !.done = {}]
    ELSE [ap EXCEPT !.done = ap.done \cup {t}]

\* 1) read_write_at(table_files[t], values[t], write_offsets[t]) completes:
\* its write_at and its fdatasync. A write that landed and an fdatasync that
\* failed is this step followed by AppendError at the pc it leaves, where an
\* error is possible whichever future completed last.
DataWrite(t) ==
    /\ ap.pc = "data"
    /\ t \notin ap.done
    /\ LET buf == alloc_dma_buffer(BufSize(ap.values[t], write_offsets[t]))
           r == read_write_at(dataFile[t], ap.values[t], write_offsets[t], buf)
       IN  /\ dataFile' = [dataFile EXCEPT ![t] = r.file]
           /\ ap' = IF r.ok THEN AfterJoin(t, "offsets") ELSE NoAppend
           /\ outcome' = IF r.ok THEN outcome ELSE "err"
    /\ rd' = NoRead
    /\ UNCHANGED <<lengthFile, newLengthFile, keysFile, offsetsFile,
                   memVars, faults, it, hist, seen>>

\* 2) read_write_at(table_offsets_files[t], new offset, length * 8) completes,
\* its write_at and its fdatasync as in step 1.
OffsetsWrite(t) ==
    /\ ap.pc = "offsets"
    /\ t \notin ap.done
    /\ LET buf == alloc_dma_buffer(
                      BufSize(to_be_bytes(ap.new_write_offsets[t]), length * 8))
           r == read_write_at(offsetsFile[t],
                              to_be_bytes(ap.new_write_offsets[t]),
                              length * 8, buf)
       IN  /\ offsetsFile' = [offsetsFile EXCEPT ![t] = r.file]
           /\ ap' = IF r.ok THEN AfterJoin(t, "key") ELSE NoAppend
           /\ outcome' = IF r.ok THEN outcome ELSE "err"
    /\ rd' = NoRead
    /\ UNCHANGED <<lengthFile, newLengthFile, keysFile, dataFile,
                   memVars, faults, it, hist, seen>>

\* 3a) read_write_at(keys_file, key, length * 8): the write_at of the buffer
\* takes effect; the fdatasync is still to come.
KeyWrite ==
    /\ ap.pc = "key"
    /\ LET buf == alloc_dma_buffer(BufSize(to_be_bytes(ap.key), length * 8))
           r == read_write_at(keysFile, to_be_bytes(ap.key), length * 8, buf)
       IN  /\ keysFile' = r.file
           /\ ap' = IF r.ok THEN [ap EXCEPT !.pc = "key_sync"] ELSE NoAppend
           /\ outcome' = IF r.ok THEN outcome ELSE "err"
    /\ rd' = NoRead
    /\ UNCHANGED <<lengthFile, newLengthFile, offsetsFile, dataFile,
                   memVars, faults, it, hist, seen>>

\* 3b) the fdatasync of the keys file returns Ok and with it read_write_at.
KeySync ==
    /\ ap.pc = "key_sync"
    /\ ap' = [ap EXCEPT !.pc = "remove"]
    /\ rd' = NoRead
    /\ UNCHANGED <<diskVars, memVars, faults, it, hist, seen, outcome>>

\* 4a) glommio::io::remove(new_length).await.ok(): the file is removed, or
\* remove returns an error (there is no such file, or an I/O error) and the
\* file is left as it was; append goes on either way. A remove that fails
\* on a file that exists is one of the faults of the behaviour.
RemoveNewLength(removed) ==
    /\ ap.pc = "remove"
    /\ removed \/ ~newLengthFile.exists \/ faults < MaxFaults
    /\ newLengthFile' = IF removed THEN NoFile ELSE newLengthFile
    /\ faults' = IF removed \/ ~newLengthFile.exists THEN faults ELSE faults + 1
    /\ ap' = [ap EXCEPT !.pc = "build_sink"]
    /\ rd' = NoRead
    /\ UNCHANGED <<lengthFile, keysFile, offsetsFile, dataFile,
                   memVars, it, hist, seen, outcome>>

\* 4b) ImmutableFileBuilder::new(new_length).build_sink(): the file is
\* created; a new_length that is still there is not opened and append
\* returns the error.
BuildSink ==
    /\ ap.pc = "build_sink"
    /\ newLengthFile' = IF newLengthFile.exists THEN newLengthFile
                        ELSE [exists |-> TRUE, data |-> <<>>]
    /\ ap' = IF newLengthFile.exists THEN NoAppend
             ELSE [ap EXCEPT !.pc = "write_all"]
    /\ outcome' = IF newLengthFile.exists THEN "err" ELSE outcome
    /\ rd' = NoRead
    /\ UNCHANGED <<lengthFile, keysFile, offsetsFile, dataFile,
                   memVars, faults, it, hist, seen>>

\* 4c) sink.write_all(be(length + 1)): held in the sink's buffer.
SinkWriteAll ==
    /\ ap.pc = "write_all"
    /\ ap' = [ap EXCEPT !.pc = "sync"]
    /\ rd' = NoRead
    /\ UNCHANGED <<diskVars, memVars, faults, it, hist, seen, outcome>>

\* 4d) sink.sync(): the 8 bytes reach the file.
SinkSync ==
    /\ ap.pc = "sync"
    /\ newLengthFile' = [exists |-> TRUE, data |-> to_be_bytes(length + 1)]
    /\ ap' = [ap EXCEPT !.pc = "close"]
    /\ rd' = NoRead
    /\ UNCHANGED <<lengthFile, keysFile, offsetsFile, dataFile,
                   memVars, faults, it, hist, seen, outcome>>

\* 4e) sink.close().
SinkClose ==
    /\ ap.pc = "close"
    /\ ap' = [ap EXCEPT !.pc = "rename"]
    /\ rd' = NoRead
    /\ UNCHANGED <<diskVars, memVars, faults, it, hist, seen, outcome>>

\* 4f) glommio::io::rename(new_length, length) takes effect in the file
\* system; the task has not been resumed yet.
RenameLength ==
    /\ ap.pc = "rename"
    /\ lengthFile' = newLengthFile.data
    /\ newLengthFile' = NoFile
    /\ ap' = [ap EXCEPT !.pc = "renamed"]
    /\ hist' = Append(SubSeq(hist, 1, length),
                      [key |-> ap.key, values |-> ap.values])
    /\ rd' = NoRead
    /\ UNCHANGED <<keysFile, offsetsFile, dataFile, memVars, faults, it, seen, outcome>>

\* 5) - 8) the task resumes after the rename: write_offsets, length, then
\* the in-memory appends; append returns Ok.
Publish ==
    /\ ap.pc = "renamed"
    /\ write_offsets' = ap.new_write_offsets
    /\ length' = length + 1
    /\ table_offsets' =
           [t \in Tables |-> Append(table_offsets[t], ap.new_write_offsets[t])]
    /\ keys' = Append(keys, ap.key)
    /\ seen' = Append(seen, [key |-> ap.key, values |-> ap.values])
    /\ ap' = NoAppend
    /\ outcome' = "ok"
    /\ rd' = NoRead
    /\ UNCHANGED <<diskVars, opened, handles, faults, it, hist>>

\* An awaited I/O call of steps 1-4 returns an error: append returns Err.
AppendError ==
    /\ ap.pc \in ErrorPcs
    /\ faults < MaxFaults
    /\ faults' = faults + 1
    /\ ap' = NoAppend
    /\ outcome' = "err"
    /\ rd' = NoRead
    /\ UNCHANGED <<diskVars, memVars, it, hist, seen>>

\* The future of append is dropped at a suspension point.
AppendDrop ==
    /\ ap.pc # "idle"
    /\ faults < MaxFaults
    /\ faults' = faults + 1
    /\ ap' = NoAppend
    /\ outcome' = "dropped"
    /\ rd' = NoRead
    /\ UNCHANGED <<diskVars, memVars, it, hist, seen>>

(***************************************************************************)
(* Restart: the in-memory state is rebuilt by open().                      *)
(***************************************************************************)
\* open() has ended with o on the length file lenF. When it returns Ok the
\* caller holds the WriterFactory and the ReaderFactory: every file that
\* open() opened is closed again, no Writer and no Reader exists, and the
\* values loaded are those the factories carry.
Opened(lenF, o) ==
    /\ LET v == ViewFrom(Loaded(o), dataFile)
       IN  /\ OpenFits(o)
           /\ lengthFile' = lenF
           /\ opened' = v.ok
           /\ keys' = v.keys
           /\ table_offsets' = v.table_offsets
           /\ write_offsets' = v.write_offsets
           /\ length' = v.length
           /\ handles' = [HandleSet("none") EXCEPT !.writer_factory = v.ok]
           /\ seen' = RecordsOf(v)
    /\ ap' = NoAppend
    /\ rd' = NoRead
    /\ it' = NoIter
    /\ UNCHANGED <<newLengthFile, keysFile, offsetsFile, dataFile, hist>>

Reopen(create, env) ==
    LET lenF == IF create /\ Len(lengthFile) = 0
                THEN FreshLengthFile ELSE lengthFile
    IN  Opened(lenF, open(lenF, keysFile, offsetsFile, dataFile, env))

\* Writer, Readers and factories are dropped or closed while no append runs,
\* then open().
CloseReopen(create) ==
    /\ opened
    /\ ap.pc = "idle"
    /\ UNCHANGED <<outcome, faults>>
    /\ Reopen(create, AnyEnv)

\* The process dies during an append, then open().
CrashReopen(create) ==
    /\ opened
    /\ ap.pc # "idle"
    /\ faults < MaxFaults
    /\ faults' = faults + 1
    /\ outcome' = "crashed"
    /\ Reopen(create, AnyEnv)

(***************************************************************************)
(* WriterFactory::make(self), one action per suspension point: the keys    *)
(* file is opened, then each table's data file and offsets file.           *)
(***************************************************************************)
MakeFrame ==
    UNCHANGED <<diskVars, opened, keys, table_offsets, write_offsets, length,
                ap, faults, it, hist, seen, outcome>>

\* The handles a Writer in the making holds go away with it: a handle that
\* was opened is dropped without close.
WriterMakeLost ==
    LET lost(h) == IF h = "open" THEN "dropped" ELSE h
    IN  [handles EXCEPT
            !.writer_call = "",
            !.keys_file = lost(@),
            !.table_files = [t \in Tables |-> lost(@[t])],
            !.table_offsets_files = [t \in Tables |-> lost(@[t])]]

\* make is called and polled up to the await of the open of the keys file:
\* the factory is consumed.
WriterMakeStart ==
    /\ opened
    /\ handles.writer_factory
    /\ handles' = [handles EXCEPT !.writer_factory = FALSE,
                                  !.writer_call = "make"]
    /\ rd' = NoRead
    /\ MakeFrame

\* The open of the keys file completes.
WriterMakeOpenKeys ==
    /\ handles.writer_call = "make"
    /\ handles.keys_file = "none"
    /\ handles' = [handles EXCEPT !.keys_file = "open"]
    /\ rd' = NoRead
    /\ MakeFrame

\* The open of a table's data file completes.
WriterMakeOpenData(t) ==
    /\ handles.writer_call = "make"
    /\ handles.keys_file = "open"
    /\ handles.table_files[t] = "none"
    /\ \A u \in 1..(t - 1) : handles.table_offsets_files[u] = "open"
    /\ handles' = [handles EXCEPT !.table_files[t] = "open"]
    /\ rd' = NoRead
    /\ MakeFrame

\* The open of a table's offsets file completes; after the last table's,
\* make returns the Writer.
WriterMakeOpenOffsets(t) ==
    /\ handles.writer_call = "make"
    /\ handles.table_files[t] = "open"
    /\ handles.table_offsets_files[t] = "none"
    /\ IF t = Len(TableNames)
       THEN /\ handles' = [handles EXCEPT !.table_offsets_files[t] = "open",
                                          !.writer = TRUE,
                                          !.writer_call = ""]
            /\ rd' = [NoRead EXCEPT !.op = "writer_make", !.kind = "ok"]
       ELSE /\ handles' = [handles EXCEPT !.table_offsets_files[t] = "open"]
            /\ rd' = NoRead
    /\ MakeFrame

\* The awaited open fails: make returns Err, and what it had opened goes away.
WriterMakeError ==
    /\ handles.writer_call = "make"
    /\ handles' = WriterMakeLost
    /\ rd' = [NoRead EXCEPT !.op = "writer_make", !.kind = "err"]
    /\ MakeFrame

\* The future of make is dropped at its suspension point.
WriterMakeDrop ==
    /\ handles.writer_call = "make"
    /\ handles' = WriterMakeLost
    /\ rd' = NoRead
    /\ MakeFrame

WriterMakeSteps ==
    \/ WriterMakeStart
    \/ WriterMakeOpenKeys
    \/ \E t \in Tables : WriterMakeOpenData(t)
    \/ \E t \in Tables : WriterMakeOpenOffsets(t)

(***************************************************************************)
(* Reader operations.                                                      *)
(***************************************************************************)
\* Some Reader value exists to call a method on.
SomeReader == \E g \in ReaderGroups : handles.readers[g].count >= 1

\* Reader::read(table, key)
Read(table, key) ==
    /\ opened
    /\ SomeReader
    /\ \E p \in position(keys, key) :
           LET r == ReaderRead(table, key, p)
           IN  rd' = [op |-> "read", table |-> table, key |-> key,
                      kind |-> r.kind, buf |-> r.buf, n |-> Len(keys)]
    /\ UNCHANGED <<diskVars, memVars, ap, faults, it, hist, seen, outcome>>

\* The Iter that Reader::iter builds once the start position is known and
\* (with a streaming table) the stream reader is open.
BuildIter(g, from, param_to, t, pos) ==
    LET kn == CaosNext(iter_from(keys, pos - 1), keys)
    IN  [NoIter EXCEPT
            !.live = TRUE, !.reader = g, !.phase = "ready",
            !.from = from, !.param_to = param_to, !.table = t, !.pos = pos,
            !.n = Len(keys),
            !.started = FALSE,
            !.current_key = IF pos = 0 THEN 0 ELSE kn.val,
            !.keys = IF pos = 0 THEN iter_from(keys, 0) ELSE kn.iter,
            !.streaming = t # 0,
            !.stream_pos = 0,
            !.stream_io_vecs =
                IF t # 0 THEN from_caos_and_position(table_offsets[t], pos)
                ELSE from_caos_and_position(<<>>, 0),
            !.table_io_vecs =
                [u \in Tables |-> from_caos_and_position(table_offsets[u], pos)],
            !.current_table_io_vecs = [u \in Tables |-> <<0, 0>>],
            !.to = Min(param_to, IF last(keys).some THEN last(keys).val ELSE 0)]

\* Reader::iter(params) on a Reader of group g, up to its return or, with
\* params.table set, up to the await of build_existing. table = "" stands for
\* params.table = None.
IterCall(g, from, param_to, table) ==
    /\ opened
    /\ handles.readers[g].count >= 1
    /\ ~it.live
    /\ LET p == next_position(keys, from)
           t == TablePosition(table)
       IN  IF ~p.some
           THEN /\ it' = NoIter
                /\ rd' = [NoRead EXCEPT !.op = "iter", !.kind = "none",
                                        !.table = table, !.key = from,
                                        !.n = Len(keys)]
           ELSE IF table # "" /\ t = 0
           THEN /\ it' = NoIter
                /\ rd' = [NoRead EXCEPT !.op = "iter", !.kind = "unknown_table",
                                        !.table = table, !.key = from,
                                        !.n = Len(keys)]
           ELSE IF table # ""
           THEN /\ it' = [NoIter EXCEPT !.live = TRUE, !.reader = g,
                                        !.phase = "opening",
                                        !.from = from, !.param_to = param_to,
                                        !.table = t, !.pos = p.val]
                /\ rd' = NoRead
           ELSE /\ it' = BuildIter(g, from, param_to, 0, p.val)
                /\ rd' = [NoRead EXCEPT !.op = "iter", !.kind = "iter",
                                        !.key = from, !.n = Len(keys)]
    /\ UNCHANGED <<diskVars, memVars, ap, faults, hist, seen, outcome>>

\* Reader::iter resumes after build_existing and returns the Iter.
IterBuild ==
    /\ it.live
    /\ it.phase = "opening"
    /\ it' = BuildIter(it.reader, it.from, it.param_to, it.table, it.pos)
    /\ rd' = [NoRead EXCEPT !.op = "iter", !.kind = "iter", !.key = it.from,
                            !.n = Len(keys)]
    /\ UNCHANGED <<diskVars, memVars, ap, faults, hist, seen, outcome>>

\* The terminal test of Iter::next: self.current_key >= self.to.
StopRule(current_key, to) == current_key >= to

\* A faulty Iter::next that has no terminal test and pulls no key: it yields
\* the current key once more on every call.
IterNextAgain ==
    /\ it.live
    /\ it.phase = "ready"
    /\ it' = [it EXCEPT
                 !.started = TRUE,
                 !.last = "some",
                 !.yielded = Append(@, [index |-> it.keys.i,
                                        prev |-> it.current_key,
                                        key |-> it.current_key,
                                        buf |-> <<>>])]
    /\ rd' = NoRead
    /\ UNCHANGED <<diskVars, memVars, ap, faults, hist, seen, outcome>>

\* Iter::next, up to its return or, with a stream reader and a record that
\* has bytes in the streamed table, up to the await of read_exact (read_exact
\* of an empty buffer is ready at once: the call returns the empty payload
\* without suspending). started, the keys iterator, every table's IoVecIter
\* and current_table_io_vecs, current_key and the stream's IoVecIter have
\* all moved on when the call suspends. last is "none", "some", "pending"
\* (the call is suspended) or "panic" (an unwrap of None).
IterNext ==
    /\ it.live
    /\ it.phase = "ready"
    /\ LET k  == CaosNext(it.keys, keys)
           tv == [t \in Tables |-> IoVecNext(it.table_io_vecs[t], table_offsets[t])]
           sv == IoVecNext(it.stream_io_vecs,
                           table_offsets[IF it.streaming THEN it.table ELSE 1])
           moved == [it EXCEPT
                        !.started = TRUE,
                        !.keys = k.iter,
                        !.table_io_vecs = [t \in Tables |-> tv[t].io],
                        !.current_table_io_vecs = [t \in Tables |-> tv[t].iovec],
                        !.current_key = k.val]
       IN  IF StopRule(it.current_key, it.to) \/ ~k.some
           THEN it' = [it EXCEPT !.started = TRUE, !.last = "none"]
           ELSE IF \E t \in Tables : ~tv[t].some
           THEN it' = [it EXCEPT !.started = TRUE, !.keys = k.iter,
                                 !.last = "panic"]
           ELSE IF ~it.streaming
           THEN it' = [moved EXCEPT
                          !.last = "some",
                          !.yielded = Append(@, [index |-> it.keys.i,
                                                 prev |-> it.current_key,
                                                 key |-> k.val,
                                                 buf |-> <<>>])]
           ELSE IF ~sv.some
           THEN it' = [moved EXCEPT !.last = "panic"]
           ELSE IF sv.iovec[2] = 0
           THEN it' = [moved EXCEPT
                          !.stream_io_vecs = sv.io,
                          !.last = "some",
                          !.yielded = Append(@, [index |-> it.keys.i,
                                                 prev |-> it.current_key,
                                                 key |-> k.val,
                                                 buf |-> <<>>])]
           ELSE it' = [moved EXCEPT
                          !.stream_io_vecs = sv.io,
                          !.phase = "reading",
                          !.last = "pending",
                          !.pending = [index |-> it.keys.i,
                                       prev |-> it.current_key,
                                       key |-> k.val,
                                       len |-> sv.iovec[2]]]
    /\ rd' = NoRead
    /\ UNCHANGED <<diskVars, memVars, ap, faults, hist, seen, outcome>>

\* The bytes the stream reader can still deliver to the read_exact in
\* progress: up to the length asked for and up to the end of the file.
StreamRest ==
    Min(it.pending.len, Max(0, Len(dataFile[it.table]) - it.stream_pos))

\* Iter::next resumes after read_exact. The read has taken got bytes off the
\* stream: with all of them the call returns Ok(Some(..)), with fewer (an I/O
\* error, or the end of the file) it returns the error, and the record the
\* call had pulled is not returned by this call or a later one.
IterNextRead ==
    /\ it.live
    /\ it.phase = "reading"
    /\ \E got \in 0..StreamRest :
           it' = IF got = it.pending.len
                 THEN [it EXCEPT
                          !.phase = "ready",
                          !.stream_pos = @ + got,
                          !.last = "some",
                          !.pending = NoPending,
                          !.yielded =
                              Append(@, [index |-> it.pending.index,
                                         prev |-> it.pending.prev,
                                         key |-> it.pending.key,
                                         buf |-> read_at(dataFile[it.table],
                                                         it.stream_pos,
                                                         got)])]
                 ELSE [it EXCEPT
                          !.phase = "ready",
                          !.stream_pos = @ + got,
                          !.last = "err",
                          !.pending = NoPending,
                          !.skipped = Append(@, it.pending.index)]
    /\ rd' = NoRead
    /\ UNCHANGED <<diskVars, memVars, ap, faults, hist, seen, outcome>>

\* The future of Iter::next is dropped at the await of read_exact, which has
\* taken got bytes off the stream, fewer than it was asked for. The Iter
\* stays as the call left it.
IterNextDrop ==
    /\ it.live
    /\ it.phase = "reading"
    /\ \E got \in 0..Min(StreamRest, it.pending.len - 1) :
           it' = [it EXCEPT
                     !.phase = "ready",
                     !.stream_pos = @ + got,
                     !.last = "dropped",
                     !.pending = NoPending,
                     !.skipped = Append(@, it.pending.index)]
    /\ rd' = NoRead
    /\ UNCHANGED <<diskVars, memVars, ap, faults, hist, seen, outcome>>

\* Iter::read(table): kind is "not_started", "unknown_table" or "some".
IterRead(table) ==
    /\ it.live
    /\ it.phase = "ready"
    /\ LET t == TablePosition(table)
           io_vec == it.current_table_io_vecs[t]
       IN  rd' = [NoRead EXCEPT
                     !.op = "iter_read", !.table = table, !.n = Len(keys),
                     !.kind = IF ~it.started THEN "not_started"
                              ELSE IF t = 0 THEN "unknown_table" ELSE "some",
                     !.buf = IF it.started /\ t # 0
                             THEN read_at(dataFile[t], io_vec[1], io_vec[2])
                             ELSE <<>>]
    /\ UNCHANGED <<diskVars, memVars, ap, faults, it, hist, seen, outcome>>

\* The Iter is dropped, and with it its clones of the Reader's table_files:
\* a handle no Reader holds any more goes away without close.
IterDrop ==
    /\ it.live
    /\ it' = NoIter
    /\ rd' = NoRead
    /\ handles' = IF it.phase # "opening" /\ handles.readers[it.reader].count = 0
                  THEN [handles EXCEPT
                           !.readers[it.reader].files =
                               [t \in Tables |-> "dropped"]]
                  ELSE handles
    /\ UNCHANGED <<diskVars, opened, keys, table_offsets, write_offsets, length,
                   ap, faults, hist, seen, outcome>>

(***************************************************************************)
(* The steps of an append in progress.                                     *)
(***************************************************************************)
AppendSteps ==
    \/ \E t \in Tables : DataWrite(t)
    \/ \E t \in Tables : OffsetsWrite(t)
    \/ KeyWrite
    \/ KeySync
    \/ \E removed \in BOOLEAN : RemoveNewLength(removed)
    \/ BuildSink
    \/ SinkWriteAll
    \/ SinkSync
    \/ SinkClose
    \/ RenameLength
    \/ Publish

(***************************************************************************)
(* Spec: the Writer's protocol with one fault. An append fails, is dropped *)
(* or dies with the process at any of its suspension points, and the store *)
(* is reopened.                                                            *)
(***************************************************************************)
Next ==
    \/ \E key \in LowKeys, values \in ValueChoices :
           length < MaxLen /\ AppendStart(key, values)
    \/ AppendSteps
    \/ faults < MaxDrops /\ AppendError
    \/ faults < MaxDrops /\ AppendDrop
    \/ WriterMakeSteps
    \/ \E create \in BOOLEAN : CloseReopen(create)
    \/ \E create \in BOOLEAN : faults < MaxDrops /\ CrashReopen(create)

Spec == Init /\ [][Next]_vars

(***************************************************************************)
(* SpecTorn: an append future is dropped, the call is made again, and the  *)
(* process dies. The appends differ in their payloads.                     *)
(***************************************************************************)
NextTorn ==
    \/ \E values \in ValueChoices : length < MaxFew /\ AppendStart(0, values)
    \/ AppendSteps
    \/ faults < MaxDrops /\ AppendDrop
    \/ WriterMakeSteps
    \/ \E create \in BOOLEAN : CrashReopen(create)

SpecTorn == Init /\ [][NextTorn]_vars

(***************************************************************************)
(* SpecReader: Reader::iter and Iter::next with every from and to, between *)
(* the steps of appends with any keys.                                     *)
(***************************************************************************)
NextReader ==
    \/ \E key \in Keys :
           length < MaxLen /\ AppendStart(key, ValuesOf(length + 1))
    \/ AppendSteps
    \/ \E g \in ReaderGroups, from \in Keys, param_to \in Keys,
          table \in {TableNames[1], ""} :
           IterCall(g, from, param_to, table)
    \/ IterBuild
    \/ IterNext
    \/ IterNextRead
    \/ IterNextDrop
    \/ IterDrop

SpecReader == Init /\ [][NextReader]_vars

(***************************************************************************)
(* SpecPayload: the payloads Iter::next and Iter::read return, streaming   *)
(* any table or none, between the steps of appends with any keys.          *)
(***************************************************************************)
NextPayload ==
    \/ \E key \in Keys :
           length < MaxLen /\ AppendStart(key, ValuesOf(length + 1))
    \/ AppendSteps
    \/ \E g \in ReaderGroups, from \in Keys, table \in TableArgs \cup {""} :
           IterCall(g, from, MaxKey, table)
    \/ IterBuild
    \/ IterNext
    \/ IterNextRead
    \/ IterNextDrop
    \/ \E table \in TableArgs : IterRead(table)
    \/ IterDrop

SpecPayload == Init /\ [][NextPayload]_vars

(***************************************************************************)
(* SpecChain: Iter::next over stores of up to MaxRecords records.          *)
(***************************************************************************)
NextChain ==
    \/ \E key \in Keys : AppendStart(key, ValuesOf(length + 1))
    \/ AppendSteps
    \/ \E g \in ReaderGroups, from \in Keys : IterCall(g, from, MaxKey, "")
    \/ IterNext
    \/ IterDrop

SpecChain == Init /\ [][NextChain]_vars

(***************************************************************************)
(* open() on a directory left by anything: the files hold any entries, any *)
(* bytes after them, and the length file any count.                        *)
(***************************************************************************)
\* The u64 values of s as the bytes of a keys or offsets file.
RECURSIVE EncodeU64s(_)
EncodeU64s(s) ==
    IF Len(s) = 0 THEN <<>> ELSE to_be_bytes(s[1]) \o EncodeU64s(Tail(s))

\* The entries of a file: small ones, and two that differ in their fifth
\* byte only (2^24 and 2^25).
EntryValues == {0, 1, 16777216, 33554432}

\* The entry sequences of a file and the bytes that may follow them: none
\* or a part of an entry (whole entries follow the counted ones whenever the
\* file holds more entries than the length file counts).
EntrySeqs == UNION {[1..n -> EntryValues] : n \in 0..MaxLen}
FileTails == {<<>>, <<0, 0, 1>>}
U64Files == {EncodeU64s(s) \o tl : s \in EntrySeqs, tl \in FileTails}

\* A data file of the given size.
ZeroFile(size) == [i \in 1..size |-> 0]

\* Length files whose count no file of the model can hold: 2^31 - 1,
\* 2^60 and 2^61 + 1.
BigCounts == {<<0, 0, 0, 0, 127, 255, 255, 255>>,
              <<16, 0, 0, 0, 0, 0, 0, 0>>,
              <<32, 0, 0, 0, 0, 0, 0, 1>>}

\* Any count of 0..MaxLen with any files, and the big counts with any keys
\* file.
InitOpen ==
    /\ \/ /\ lengthFile \in {to_be_bytes(n) : n \in 0..MaxLen}
          /\ offsetsFile \in
                 {[t \in Tables |-> IF t = 1 THEN first ELSE other] :
                     first \in U64Files,
                     other \in {EncodeU64s(<<0, 0>>), EncodeU64s(<<1>>)}}
          /\ dataFile \in [Tables -> {ZeroFile(size) : size \in 0..1}]
       \/ /\ lengthFile \in BigCounts
          /\ offsetsFile = [t \in Tables |-> EncodeU64s(<<0, 0>>)]
          /\ dataFile = [t \in Tables |-> ZeroFile(0)]
    /\ newLengthFile = NoFile
    /\ keysFile \in U64Files
    /\ opened = FALSE
    /\ keys = <<>>
    /\ table_offsets = [t \in Tables |-> <<>>]
    /\ write_offsets = [t \in Tables |-> 0]
    /\ length = 0
    /\ handles = HandleSet("none")
    /\ ap = NoAppend
    /\ faults = 0
    /\ rd = NoRead
    /\ it = NoIter
    /\ hist = <<>>
    /\ seen = <<>>
    /\ outcome = "none"

\* open(cfg) without create_if_not_exists.
OpenDir(env) ==
    /\ ~opened
    /\ outcome = "none"
    /\ LET o == open(lengthFile, keysFile, offsetsFile, dataFile, env)
       IN  /\ Opened(lengthFile, o)
           /\ outcome' = IF o.ok THEN "open_ok"
                          ELSE IF o.panic THEN "open_panic"
                          ELSE IF o.abort THEN "open_abort"
                          ELSE "open_err"
    /\ UNCHANGED faults

NextOpen == \E env \in Envs : OpenDir(env)

SpecOpen == InitOpen /\ [][NextOpen]_vars

(***************************************************************************)
(* Reader::read_many and Iter::read_many with one sub-range, and the       *)
(* reader operations called with any table name.                           *)
(***************************************************************************)
\* The (pos, size) sub-ranges a read_many is called with, relative to the
\* start of the record.
IoVecs == {<<0, 1>>, <<1, 1>>}

\* The table names of the calls: the configured ones and one that is not.
TableArgsAll == TableArgs \cup {"missing"}

\* Reader::read_many(table, key, iovs): [kind, buf]. p is what
\* self.keys.position(key) returns.
ReaderReadMany(table, key, iov, p) ==
    LET t == TablePosition(table)
    IN  IF t = 0 THEN [kind |-> "unknown_table", buf |-> <<>>]
        ELSE IF ~p.some THEN [kind |-> "none", buf |-> <<>>]
        ELSE LET base_offset ==
                     IF p.val = 0 THEN 0
                     ELSE CaosNext(iter_from(table_offsets[t], p.val - 1),
                                   table_offsets[t]).val
             IN  [kind |-> "some",
                  buf |-> read_at(dataFile[t], iov[1] + base_offset, iov[2])]

ReadMany(table, key, iov) ==
    /\ opened
    /\ SomeReader
    /\ \E p \in position(keys, key) :
           LET r == ReaderReadMany(table, key, iov, p)
           IN  rd' = [op |-> "read_many", table |-> table, key |-> key,
                      kind |-> r.kind, buf |-> r.buf, n |-> Len(keys)]
    /\ UNCHANGED <<diskVars, memVars, ap, faults, it, hist, seen, outcome>>

\* A faulty Iter::read_many that looks the table up before it tests started.
IterReadManyTableFirst(table, iov) ==
    /\ it.live
    /\ it.phase = "ready"
    /\ LET t == TablePosition(table)
           base_io_vec == it.current_table_io_vecs[t]
       IN  rd' = [NoRead EXCEPT
                     !.op = "iter_read_many", !.table = table, !.n = Len(keys),
                     !.kind = IF t = 0 THEN "unknown_table"
                              ELSE IF ~it.started THEN "not_started"
                              ELSE "some",
                     !.buf = IF t # 0
                             THEN read_at(dataFile[t], iov[1] + base_io_vec[1],
                                          iov[2])
                             ELSE <<>>]
    /\ UNCHANGED <<diskVars, memVars, ap, faults, it, hist, seen, outcome>>

\* Iter::read_many(table, iovs): kind is "not_started", "unknown_table" or
\* "some".
IterReadMany(table, iov) ==
    /\ it.live
    /\ it.phase = "ready"
    /\ LET t == TablePosition(table)
           base_io_vec == it.current_table_io_vecs[t]
       IN  rd' = [NoRead EXCEPT
                     !.op = "iter_read_many", !.table = table, !.n = Len(keys),
                     !.kind = IF ~it.started THEN "not_started"
                              ELSE IF t = 0 THEN "unknown_table" ELSE "some",
                     !.buf = IF it.started /\ t # 0
                             THEN read_at(dataFile[t], iov[1] + base_io_vec[1],
                                          iov[2])
                             ELSE <<>>]
    /\ UNCHANGED <<diskVars, memVars, ap, faults, it, hist, seen, outcome>>

\* SpecTables: the reader operations with any table name, between the steps
\* of the append of a first record.
NextTables ==
    \/ \E key \in Keys :
           length < MaxFew /\ AppendStart(key, ValuesOf(length + 1))
    \/ AppendSteps
    \/ \E table \in TableArgsAll, key \in Keys : Read(table, key)
    \/ \E table \in TableArgsAll, key \in Keys, iov \in IoVecs :
           ReadMany(table, key, iov)
    \/ \E g \in ReaderGroups, from \in Keys,
          table \in {"missing", TableNames[1], ""} :
           IterCall(g, from, MaxKey, table)
    \/ IterBuild
    \/ IterNext
    \/ IterNextRead
    \/ IterNextDrop
    \/ \E table \in TableArgsAll : IterRead(table)
    \/ \E table \in TableArgsAll, iov \in IoVecs : IterReadMany(table, iov)
    \/ IterDrop

SpecTables == Init /\ [][NextTables]_vars

(***************************************************************************)
(* Writer::append as the caller sees it: the arity check, then the append. *)
(***************************************************************************)
\* Value vectors whose length is not the number of tables.
BadValueChoices ==
    {<<>>, <<Payload(1, 1)>>, <<Payload(1, 1), Payload(1, 2), Payload(2, 2)>>}

\* A faulty arity check that lets longer value vectors through.
ArityAtLeast(values) == Len(values) >= Len(TableNames)

\* The check of writer.rs:42: values.len() == self.table_names.len().
ArityOk(values) == Len(values) = Len(TableNames)

\* Writer::append(key, values) up to its first suspension point: the argument
\* error, or the start of the append.
AppendCall(key, values) ==
    IF ArityOk(values)
    THEN AppendStart(key, values)
    ELSE /\ opened
         /\ handles.writer
         /\ ap.pc = "idle"
         /\ outcome' = "err"
         /\ rd' = [NoRead EXCEPT !.op = "append", !.kind = "arity_err"]
         /\ UNCHANGED <<diskVars, memVars, ap, faults, it, hist, seen>>

\* SpecCalls: calls of append with any keys and any number of values, their
\* steps, and reopen.
NextCalls ==
    \/ \E key \in Keys, values \in ValueChoices \cup BadValueChoices :
           length < MaxLen /\ AppendCall(key, values)
    \/ AppendSteps
    \/ WriterMakeSteps
    \/ \E create \in BOOLEAN : CloseReopen(create)

SpecCalls == Init /\ [][NextCalls]_vars

(***************************************************************************)
(* SpecInterleave: the steps of Writer::append, dropped appends included,  *)
(* between the steps of Reader::iter and Iter::next and the calls of       *)
(* Reader::read, all on the one executor thread.                           *)
(***************************************************************************)
NextInterleave ==
    \/ \E key \in LowKeys, values \in ValueChoices :
           length < MaxLen /\ AppendStart(key, values)
    \/ AppendSteps
    \/ faults < MaxDrops /\ AppendDrop
    \/ \E g \in ReaderGroups, from \in Keys, table \in {TableNames[1], ""} :
           IterCall(g, from, MaxKey, table)
    \/ IterBuild
    \/ IterNext
    \/ IterNextRead
    \/ IterNextDrop
    \/ IterDrop
    \/ \E key \in LowKeys : Read(TableNames[1], key)

SpecInterleave == Init /\ [][NextInterleave]_vars

(***************************************************************************)
(* Handles and close. SpecHandles starts when open() has returned on an    *)
(* empty directory: the Writer is made (or its make fails or is dropped),  *)
(* Readers are made, cloned, dropped and closed, Readers read, Iters are   *)
(* made and dropped, and the Writer appends a record and is closed. The    *)
(* record has key 0, so that every Iter::next returns None at its terminal *)
(* test and none reaches its read.                                         *)
(***************************************************************************)
\* The Reader values alive or being made.
ReaderValues ==
    Cardinality({p \in ReaderGroups \X (1..MaxReaders) :
                    p[2] <= handles.readers[p[1]].count
                            + (IF handles.readers[p[1]].call = "make"
                               THEN 1 ELSE 0)})

\* Strong count of the Rc of the handle of table t's data file in group g:
\* one per Reader value (derive(Clone)), one per Iter (Reader::iter clones
\* table_files into the Iter it returns) and, while Reader::iter is suspended
\* in build_existing, the clone of the streamed table's Rc that
\* get_file_and_offsets returned. (Reader::read, Reader::read_many and
\* Iter::read are single steps here: the clone each holds while its read is
\* pending is gone again when the step ends.)
StrongCount(g, t) ==
    handles.readers[g].count
        + (IF it.live /\ it.reader = g
                /\ (it.phase = "opening" => it.table = t)
           THEN 1 ELSE 0)

\* A faulty ownership test that lets close go on whatever the count is.
ExclusiveAlways(count) == TRUE

\* Rc::try_unwrap(f) returns Ok only for the sole owner.
Exclusive(count) == count = 1

\* A Reader value whose iter() is suspended in build_existing is borrowed: it
\* can be neither closed nor dropped until iter() returns.
ReaderFree(g) ==
    /\ handles.readers[g].count >= 1
    /\ ~(it.live /\ it.phase = "opening" /\ it.reader = g
            /\ handles.readers[g].count = 1)

HandleFrame ==
    UNCHANGED <<diskVars, opened, keys, table_offsets, write_offsets, length,
                ap, faults, it, hist, seen, outcome>>

\* ReaderFactory::make(&self) is called: a Reader with handles of its own is
\* on its way.
ReaderMakeStart(g) ==
    /\ opened
    /\ ReaderValues < MaxReaders
    /\ handles.readers[g] = NoReader
    /\ \A h \in 1..(g - 1) : handles.readers[h] # NoReader
    /\ handles' = [handles EXCEPT !.readers[g].call = "make"]
    /\ rd' = NoRead
    /\ HandleFrame

\* DmaFile::open of the next table's data file completes.
ReaderMakeOpen(g, t) ==
    /\ handles.readers[g].call = "make"
    /\ handles.readers[g].files[t] = "none"
    /\ \A u \in 1..(t - 1) : handles.readers[g].files[u] = "open"
    /\ handles' = [handles EXCEPT !.readers[g].files[t] = "open"]
    /\ rd' = NoRead
    /\ HandleFrame

\* make returns the Reader.
ReaderMakeDone(g) ==
    /\ handles.readers[g].call = "make"
    /\ \A t \in Tables : handles.readers[g].files[t] = "open"
    /\ handles' = [handles EXCEPT !.readers[g].call = "",
                                  !.readers[g].count = 1]
    /\ rd' = [NoRead EXCEPT !.op = "reader_make", !.kind = "ok"]
    /\ HandleFrame

\* Reader::clone.
ReaderClone(g) ==
    /\ handles.readers[g].count >= 1
    /\ ReaderValues < MaxReaders
    /\ handles' = [handles EXCEPT !.readers[g].count = @ + 1]
    /\ rd' = NoRead
    /\ HandleFrame

\* A Reader value is dropped without close.
ReaderDrop(g) ==
    /\ ReaderFree(g)
    /\ handles' = [handles EXCEPT
                      !.readers[g].count = @ - 1,
                      !.readers[g].files =
                          [t \in Tables |->
                              IF StrongCount(g, t) = 1 THEN "dropped" ELSE @[t]]]
    /\ rd' = NoRead
    /\ HandleFrame

\* Reader::close(self) is called. Every Rc::try_unwrap runs before the first
\* await: the expect panics on the first shared Rc and no close future is
\* polled; otherwise the close futures own the handles. The Reader value is
\* consumed either way.
ReaderCloseStart(g) ==
    /\ ReaderFree(g)
    /\ IF \A t \in Tables : Exclusive(StrongCount(g, t))
       THEN /\ handles' = [handles EXCEPT !.readers[g].count = @ - 1,
                                          !.readers[g].call = "close"]
            /\ rd' = NoRead
       ELSE /\ handles' = [handles EXCEPT !.readers[g].count = @ - 1]
            /\ rd' = [NoRead EXCEPT !.op = "reader_close", !.kind = "panic"]
    /\ HandleFrame

\* DmaFile::close of one table's data file takes effect; try_join_all runs the
\* closes in any order.
ReaderCloseFile(g, t) ==
    /\ handles.readers[g].call = "close"
    /\ handles.readers[g].files[t] = "open"
    /\ handles' = [handles EXCEPT !.readers[g].files[t] = "closed"]
    /\ rd' = NoRead
    /\ HandleFrame

\* Every close has completed: Reader::close returns Ok.
ReaderCloseDone(g) ==
    /\ handles.readers[g].call = "close"
    /\ \A t \in Tables : handles.readers[g].files[t] = "closed"
    /\ handles' = [handles EXCEPT !.readers[g].call = ""]
    /\ rd' = [NoRead EXCEPT !.op = "reader_close", !.kind = "ok"]
    /\ HandleFrame

\* Writer::close(self) is called: the Writer is consumed and the close futures
\* own table_files. (No append runs: append borrows the Writer.)
WriterCloseStart ==
    /\ handles.writer
    /\ ap.pc = "idle"
    /\ handles' = [handles EXCEPT !.writer = FALSE, !.writer_call = "close"]
    /\ rd' = NoRead
    /\ HandleFrame

\* DmaFile::close of one table's data file takes effect.
WriterCloseFile(t) ==
    /\ handles.writer_call = "close"
    /\ handles.table_files[t] = "open"
    /\ handles' = [handles EXCEPT !.table_files[t] = "closed"]
    /\ rd' = NoRead
    /\ HandleFrame

\* Every close has completed: Writer::close returns Ok. close() was called on
\* the Rcs of table_files and on nothing else; keys_file and
\* table_offsets_files go away with what is left of self when the call ends.
WriterCloseDone ==
    /\ handles.writer_call = "close"
    /\ \A t \in Tables : handles.table_files[t] = "closed"
    /\ handles' = [handles EXCEPT
                      !.writer_call = "",
                      !.keys_file = "dropped",
                      !.table_offsets_files = [t \in Tables |-> "dropped"]]
    /\ rd' = [NoRead EXCEPT !.op = "writer_close", !.kind = "ok"]
    /\ HandleFrame

\* open(create_if_not_exists) on an empty directory has returned: the
\* factories exist, and no Writer, no Reader and no handle.
InitHandles ==
    /\ lengthFile = FreshLengthFile
    /\ newLengthFile = NoFile
    /\ keysFile = <<>>
    /\ offsetsFile = [t \in Tables |-> <<>>]
    /\ dataFile = [t \in Tables |-> <<>>]
    /\ opened = TRUE
    /\ keys = <<>>
    /\ table_offsets = [t \in Tables |-> <<>>]
    /\ write_offsets = [t \in Tables |-> 0]
    /\ length = 0
    /\ handles = [HandleSet("none") EXCEPT !.writer_factory = TRUE]
    /\ ap = NoAppend
    /\ faults = 0
    /\ rd = NoRead
    /\ it = NoIter
    /\ hist = <<>>
    /\ seen = <<>>
    /\ outcome = "none"

NextHandles ==
    \/ WriterMakeSteps
    \/ WriterMakeError
    \/ WriterMakeDrop
    \/ length < MaxFew /\ AppendStart(0, ValuesOf(length + 1))
    \/ AppendSteps
    \/ Read(TableNames[1], 0)
    \/ \E g \in ReaderGroups : ReaderMakeStart(g)
    \/ \E g \in ReaderGroups, t \in Tables : ReaderMakeOpen(g, t)
    \/ \E g \in ReaderGroups : ReaderMakeDone(g)
    \/ \E g \in ReaderGroups : ReaderClone(g)
    \/ \E g \in ReaderGroups : ReaderDrop(g)
    \/ \E g \in ReaderGroups : ReaderCloseStart(g)
    \/ \E g \in ReaderGroups, t \in Tables : ReaderCloseFile(g, t)
    \/ \E g \in ReaderGroups : ReaderCloseDone(g)
    \/ WriterCloseStart
    \/ \E t \in Tables : WriterCloseFile(t)
    \/ WriterCloseDone
    \/ \E g \in ReaderGroups, from \in Keys, table \in {TableNames[1], ""} :
           IterCall(g, from, MaxKey, table)
    \/ IterBuild
    \/ IterNext
    \/ IterDrop

SpecHandles == InitHandles /\ [][NextHandles]_vars

(***************************************************************************)
(* read_write_at on its own: one call on a file of any length, at any      *)
(* position, with data of any length. The file is held in keysFile.        *)
(***************************************************************************)
\* Lengths of the file and positions of the write: up to two blocks.
RwSizes == 0..(2 * BlockSize + 1)

\* File contents that differ from the data, from the fill and from byte to
\* neighbouring byte.
RwFile(size) == [i \in 1..size |-> 1 + (i % 7)]

\* The data written: nothing, one byte, a few bytes, a whole block.
RwData == {<<>>, <<201>>, <<201, 202, 203>>, [i \in 1..BlockSize |-> 100 + i]}

InitRw ==
    /\ lengthFile = <<>>
    /\ newLengthFile = NoFile
    /\ \E size \in RwSizes : keysFile = RwFile(size)
    /\ offsetsFile = [t \in Tables |-> <<>>]
    /\ dataFile = [t \in Tables |-> <<>>]
    /\ opened = FALSE
    /\ keys = <<>>
    /\ table_offsets = [t \in Tables |-> <<>>]
    /\ write_offsets = [t \in Tables |-> 0]
    /\ length = 0
    /\ handles = HandleSet("none")
    /\ ap = NoAppend
    /\ faults = 0
    /\ rd = NoRead
    /\ it = NoIter
    /\ hist = <<>>
    /\ seen = <<>>
    /\ outcome = "none"

\* read_write_at(file, data, pos) runs and returns Ok or Err.
RwCall(data, pos) ==
    /\ outcome = "none"
    /\ LET buf == alloc_dma_buffer(BufSize(data, pos))
           r == read_write_at(keysFile, data, pos, buf)
       IN  /\ keysFile' = r.file
           /\ outcome' = IF r.ok THEN "ok" ELSE "err"
    /\ rd' = [NoRead EXCEPT !.op = "read_write_at", !.key = pos, !.buf = data]
    /\ UNCHANGED <<lengthFile, newLengthFile, offsetsFile, dataFile, memVars,
                   ap, faults, it, hist, seen>>

NextRw ==
    \E data \in RwData, pos \in RwSizes : RwCall(data, pos)

SpecRw == InitRw /\ [][NextRw]_vars

(***************************************************************************)
(* SpecFrame: the steps of appends that succeed or are dropped, with any   *)
(* payloads, and Reader::read of the first table's key 0 between them.     *)
(***************************************************************************)
NextFrame ==
    \/ \E key \in LowKeys, values \in ValueChoices :
           length < MaxLen /\ AppendStart(key, values)
    \/ AppendSteps
    \/ faults < MaxDrops /\ AppendDrop
    \/ Read(TableNames[1], 0)

SpecFrame == Init /\ [][NextFrame]_vars

(***************************************************************************)
(* SpecLookup: Reader::read of any table and key between the steps of      *)
(* appends with any keys.                                                  *)
(***************************************************************************)
NextLookup ==
    \/ \E key \in Keys :
           length < MaxLen /\ AppendStart(key, ValuesOf(length + 1))
    \/ AppendSteps
    \/ \E table \in TableArgs, key \in Keys : Read(table, key)

SpecLookup == Init /\ [][NextLookup]_vars


(***************************************************************************)
(* Properties of the writer protocol, stated for Spec.                     *)
(***************************************************************************)
Sorted(s) == \A i \in 1..(Len(s) - 1) : s[i] <= s[i + 1]

\* The bytes open() decodes were all written: the count of the length file
\* and, for each record it counts, the key and every table's offset. (No
\* operator of the model computes with an Uninit byte.)
DecodesKnown ==
    /\ Known(read_at(lengthFile, 0, 8))
    /\ Known(read_at(keysFile, 0, 8 * DiskLength))
    /\ \A t \in Tables : Known(read_at(offsetsFile[t], 0, 8 * DiskLength))

\* The bytes a reader returned were all written.
ReadsKnown ==
    /\ Known(rd.buf)
    /\ \A j \in 1..Len(it.yielded) : Known(it.yielded[j].buf)

\* The state open() loads once the append in progress has committed, given
\* the state pre it would have loaded when the append started.
PostView(pre, key, values) ==
    [ok |-> TRUE,
     keys |-> Append(pre.keys, key),
     table_offsets |-> [t \in Tables |->
         Append(pre.table_offsets[t], pre.write_offsets[t] + Len(values[t]))],
     write_offsets |-> [t \in Tables |-> pre.write_offsets[t] + Len(values[t])],
     length |-> pre.length + 1,
     payloads |-> [t \in Tables |-> Append(pre.payloads[t], values[t])]]

\* C1 (crash consistency): were the process to die at any point of an
\* append before the rename has taken effect, open() would succeed and load
\* exactly the state it would have loaded when the append started; after
\* the rename it would load exactly that state with the appended record
\* added. No other state is ever loaded.
C1_CrashConsistency ==
    (opened /\ ap.pc # "idle") =>
        /\ View.ok
        /\ View = IF ap.pc = "renamed"
                  THEN PostView(ap.pre, ap.key, ap.values)
                  ELSE ap.pre

\* The parts of the record of the append in progress that are on disk, at
\* the index N = length and the offsets the Writer writes them to.
DurableData(t) ==
    read_at(dataFile[t], write_offsets[t], Len(ap.values[t])) = ap.values[t]
DurableOffsets(t) ==
    /\ Len(offsetsFile[t]) >= 8 * (length + 1)
    /\ U64At(offsetsFile[t], length) = U64(write_offsets[t] + Len(ap.values[t]))
DurableKey ==
    /\ Len(keysFile) >= 8 * (length + 1)
    /\ U64At(keysFile, length) = U64(ap.key)
DurableRecord ==
    /\ DurableKey
    /\ \A t \in Tables : DurableOffsets(t) /\ DurableData(t)

C2_Committed ==
    (ap.pc # "idle" /\ DiskLength = length + 1) => DurableRecord

C2_Order ==
    /\ (offsetsFile' # offsetsFile) => \A t \in Tables : DurableData(t)
    /\ (keysFile' # keysFile) =>
           \A t \in Tables : DurableData(t) /\ DurableOffsets(t)
    /\ (lengthFile' # lengthFile) => DurableRecord

\* C2 (commit ordering): in every state of an append of record N in which
\* the length file holds N+1, the keys entry N equals the appended key,
\* every table's offsets entry N equals the old offset plus the payload
\* length and every table's data bytes equal the payload; no offsets write
\* completes before all data writes have, the key write not before all
\* offsets writes have, and the length file is replaced only after the key
\* write.
C2_CommitOrdering == [](C2_Committed) /\ [][C2_Order]_vars

\* C3 (no loss of observed data): the in-memory record count never exceeds
\* the count in the length file, and every record published in memory would
\* be loaded by open() after a crash, with the same key and payloads.
C3_NoLossOfObserved ==
    opened =>
        /\ Len(keys) <= DiskLength
        /\ Len(seen) = Len(keys)
        /\ View.ok
        /\ View.length >= Len(keys)
        /\ SubSeq(RecordsOf(View), 1, Len(keys)) = seen

\* C9 (length agreement): whenever append is not executing, the keys
\* sequence and every table's offsets sequence hold exactly `length`
\* elements, and the length file holds the same number.
C9_LengthAgreement ==
    (opened /\ ap.pc = "idle") =>
        /\ Len(keys) = length
        /\ \A t \in Tables : Len(table_offsets[t]) = length
        /\ DiskLength = length

C10_Step ==
    (ap.pc # "idle" /\ ap'.pc = "idle" /\ outcome' \in {"err", "dropped"}) =>
        /\ keys' = keys
        /\ table_offsets' = table_offsets
        /\ write_offsets' = write_offsets
        /\ length' = length
        /\ DiskLength' = length

\* C10 (failed append leaves state unchanged): when an append returns an
\* error or its future is dropped, the in-memory sequences, length and
\* write_offsets are what they were before the call and the length file
\* still holds the previous record count.
C10_FailedAppendUnchanged == [][C10_Step]_vars

(***************************************************************************)
(* Properties of reopening and reading: C8 is stated for SpecCalls, C4    *)
(* for SpecLookup, C5 for SpecReader, C6 and C7 for SpecPayload.           *)
(***************************************************************************)
\* C8 (round trip across reopen): after any sequence of successful appends,
\* closing and calling open() again succeeds and yields the keys, the
\* offsets of every table and the length held before, with write_offsets
\* equal to the last offset of each table (0 when empty).
C8_RoundTrip ==
    (opened /\ ap.pc = "idle") =>
        /\ OpenNow.ok
        /\ OpenNow.keys = keys
        /\ OpenNow.table_offsets = table_offsets
        /\ OpenNow.length = length
        /\ OpenNow.write_offsets = [t \in Tables |-> LastOr0(table_offsets[t])]
        /\ OpenNow.write_offsets = write_offsets

\* The keys of the published records, in append order.
SeenKeys == [i \in 1..Len(seen) |-> seen[i].key]

\* C4 (point lookup): after successful appends with non-decreasing keys,
\* Reader.read(t, k) returns the payload appended for table t at an index
\* whose key is k when there is one, and None when no record has key k.
C4_PointLookup ==
    (rd.op = "read" /\ Sorted(SeenKeys)) =>
        LET t == TablePosition(rd.table)
        IN  IF \E i \in 1..Len(seen) : seen[i].key = rd.key
            THEN /\ rd.kind = "some"
                 /\ \E i \in 1..Len(seen) :
                       /\ seen[i].key = rd.key
                       /\ rd.buf = seen[i].values[t]
                       /\ rd.buf = read_at(dataFile[t],
                                           Extent(table_offsets[t], i)[1],
                                           Extent(table_offsets[t], i)[2])
            ELSE rd.kind = "none"

\* C4: a read of a key that is not the first record's returned a non-empty
\* payload.
C4_Witness ==
    /\ rd.op = "read"
    /\ Sorted(SeenKeys)
    /\ rd.kind = "some"
    /\ Len(rd.buf) > 0
    /\ Len(seen) >= 2
    /\ seen[1].key < rd.key

\* The elements of a set of indices in ascending order.
AscendingSeq(S) ==
    [j \in 1..Cardinality(S) |->
        CHOOSE i \in S : Cardinality({x \in S : x < i}) = j - 1]

\* The 1-based indices of the records the live Iter has yielded, in order.
YieldedIdx == [j \in 1..Len(it.yielded) |-> it.yielded[j].index + 1]

\* The live Iter yields the records with indices R: what it has yielded is a
\* prefix of R in storage order, all of R once next has returned None, and
\* no unwrap of next fails.
YieldsExactly(R) ==
    /\ it.last # "panic"
    /\ Len(it.yielded) <= Cardinality(R)
    /\ YieldedIdx = SubSeq(AscendingSeq(R), 1, Len(it.yielded))
    /\ \A j \in 1..Len(it.yielded) : it.yielded[j].key = keys[YieldedIdx[j]]
    /\ (it.last = "none") => (Len(it.yielded) = Cardinality(R))

\* min(b, kn) of an iterator made with to = b over the keys k1..kn, the
\* records published when the Iter was built.
ClampedTo == Min(it.param_to, keys[it.n])

\* The key of the record stored before record i, 0 for the first record.
PrevKey(i) == IF i = 1 THEN 0 ELSE keys[i - 1]

IterReady ==
    it.live /\ it.phase = "ready" /\ Sorted(SubSeq(keys, 1, it.n))

IterNoneIsEmpty ==
    (rd.op = "iter" /\ rd.kind = "none") =>
        \A i \in 1..Len(keys) : keys[i] < rd.key

\* C5 (range correctness): over non-decreasing keys k1..kn the iterator made
\* with from = a, to = b yields, through successive Iter.next calls, exactly
\* the records whose key satisfies a <= key <= min(b, kn), each once and in
\* storage order, and no record outside that range.
C5_RangeExact ==
    /\ IterNoneIsEmpty
    /\ IterReady =>
          YieldsExactly({i \in 1..it.n :
                            it.from <= keys[i] /\ keys[i] <= ClampedTo})

\* The records the terminal test of Iter::next lets through: those whose key
\* is >= a and whose preceding record's key (0 for the first record) is
\* < min(b, kn).
RunOfIter == {i \in 1..it.n : it.from <= keys[i] /\ PrevKey(i) < ClampedTo}

\* The same with the upper end of the range as Iter::next has it: the
\* iterator yields exactly the records of RunOfIter, each once and in
\* storage order. A record that a failed or dropped call pulled is missing.
RangeRun ==
    /\ IterNoneIsEmpty
    /\ IterReady => YieldsExactly(RunOfIter)

\* An iterator none of whose calls failed or was dropped at its read yields
\* exactly the records of RunOfIter.
RangeRunUnlessSkipped ==
    /\ IterNoneIsEmpty
    /\ (IterReady /\ it.skipped = <<>>) => YieldsExactly(RunOfIter)

\* C6 (streaming payload): every record a streaming iterator yields comes
\* with the payload appended for the streamed table at that record's index,
\* whatever the start position of the iterator.
C6_StreamPayload ==
    (it.live /\ it.phase = "ready" /\ it.streaming) =>
        \A j \in 1..Len(it.yielded) :
            it.yielded[j].buf = seen[YieldedIdx[j]].values[it.table]

\* C7 (secondary per-record read): once Iter.next has yielded the record at
\* index i, Iter.read(t) returns the payload appended for table t at index
\* i, read from the file range [offsets[t][i-1] or 0, offsets[t][i]), until
\* Iter.next yields another record.
C7_SecondaryRead ==
    (rd.op = "iter_read" /\ Len(it.yielded) > 0) =>
        LET t == TablePosition(rd.table)
            i == YieldedIdx[Len(it.yielded)]
        IN  /\ rd.kind = "some"
            /\ it.current_table_io_vecs[t] = Extent(table_offsets[t], i)
            /\ rd.buf = seen[i].values[t]

\* The same of an Iter none of whose calls failed or was dropped at its read.
SecondaryReadUnlessSkipped ==
    (rd.op = "iter_read" /\ Len(it.yielded) > 0 /\ it.skipped = <<>>) =>
        LET t == TablePosition(rd.table)
            i == YieldedIdx[Len(it.yielded)]
        IN  /\ rd.kind = "some"
            /\ it.current_table_io_vecs[t] = Extent(table_offsets[t], i)
            /\ rd.buf = seen[i].values[t]

(***************************************************************************)
(* Properties of readers between the steps of an append, stated for        *)
(* SpecInterleave.                                                         *)
(***************************************************************************)
C11_Snapshot ==
    (it.live /\ it.phase \in {"ready", "reading"}) =>
        /\ it.n <= Len(keys)
        /\ it.last # "panic"
        /\ it.keys.end = it.n
        /\ it.keys.i <= it.n
        /\ \A t \in Tables :
              /\ it.table_io_vecs[t].inner.end = it.n
              /\ it.table_io_vecs[t].inner.i = it.keys.i
        /\ it.streaming =>
              /\ it.stream_io_vecs.inner.end = it.n
              /\ it.stream_io_vecs.inner.i = it.keys.i
        /\ (it.phase = "reading") =>
              /\ it.pending.index < it.n
              /\ it.pending.key = keys[it.pending.index + 1]
        /\ \A j \in 1..Len(it.yielded) :
              /\ it.yielded[j].index < it.n
              /\ it.yielded[j].key = keys[it.yielded[j].index + 1]

\* Reader::read returns the payload of a record that was published when it
\* was called.
C11_ReadPublished ==
    (rd.op = "read" /\ rd.kind = "some") =>
        \E i \in 1..rd.n :
            /\ keys[i] = rd.key
            /\ rd.buf = seen[i].values[TablePosition(rd.table)]

C11_Stable ==
    /\ Len(keys') >= Len(keys)
    /\ \A i \in 1..Len(keys) :
          /\ keys'[i] = keys[i]
          /\ \A t \in Tables :
                /\ table_offsets'[t][i] = table_offsets[t][i]
                /\ Known(read_at(dataFile[t], Extent(table_offsets[t], i)[1],
                                 Extent(table_offsets[t], i)[2]))
                /\ read_at(dataFile'[t], Extent(table_offsets[t], i)[1],
                           Extent(table_offsets[t], i)[2])
                       = read_at(dataFile[t], Extent(table_offsets[t], i)[1],
                                 Extent(table_offsets[t], i)[2])

\* C11 (snapshot isolation under interleaving): whatever the interleaving of
\* Reader.iter, Iter.next (its await of the stream read included) and
\* Reader.read with the steps of an append, an Iter built when k records were
\* published yields only records with index < k, its keys iterator and every
\* offsets iterator cover the same indices so that Iter.next never fails an
\* unwrap, Reader.read returns the payload of a published record, and the
\* keys, offsets and payload bytes at published indices never change.
C11_SnapshotIsolation ==
    [](C11_Snapshot /\ C11_ReadPublished) /\ [][C11_Stable]_vars

\* C11: a streaming iterator built over one record is suspended in the read
\* of its first Iter.next, a second record has been published since, and a
\* Reader.read has returned the payload of a published record meanwhile.
C11_Witness ==
    /\ it.live
    /\ it.phase = "reading"
    /\ it.n = 1
    /\ Len(keys) = 2
    /\ rd.op = "read"
    /\ rd.kind = "some"
    /\ rd.n = 2

(***************************************************************************)
(* Properties of the calls of append, stated for SpecCalls.                *)
(***************************************************************************)
\* The keys the keys file holds for the records the length file counts, as
\* u64 values.
DiskKeys == [i \in 1..DiskLength |-> U64At(keysFile, i - 1)]
SortedU64(s) == \A i \in 1..(Len(s) - 1) : ~U64Less(s[i + 1], s[i])

\* C12 (writes never produce a state that recovery rejects): after appends
\* that returned Ok, whatever keys the caller passed, the in-memory and the
\* on-disk keys are non-decreasing and open() of the directory does not
\* fail.
C12_WritesStayLoadable ==
    (opened /\ ap.pc = "idle") =>
        /\ Sorted(keys)
        /\ SortedU64(DiskKeys)
        /\ OpenNow.ok

C13_Rejected ==
    (rd'.op = "append" /\ rd'.kind = "arity_err") =>
        /\ outcome' = "err"
        /\ UNCHANGED diskVars
        /\ UNCHANGED memVars

C13_NoneCommitted ==
    \A i \in 1..Len(hist) : Len(hist[i].values) = Len(TableNames)

\* C13 (arity check): an append whose value count differs from the number
\* of tables returns an error and leaves every file, the Writer's length and
\* write_offsets and all in-memory sequences unchanged; no record with a
\* wrong value count is ever written.
C13_ArityCheck == [](C13_NoneCommitted) /\ [][C13_Rejected]_vars

\* C13: an append with a wrong value count was rejected on a store that
\* holds a record.
C13_Witness ==
    /\ rd.op = "append"
    /\ rd.kind = "arity_err"
    /\ outcome = "err"
    /\ Len(keys) >= 1
    /\ DiskLength = Len(keys)

(***************************************************************************)
(* Properties of the reader operations' errors, stated for SpecTables.     *)
(***************************************************************************)
\* C14 (unknown table): every reader operation called with a table name
\* that is not configured (Reader.read, Reader.read_many, Reader.iter with a
\* table, Iter.read, Iter.read_many) returns the unknown-table error,
\* whatever the store holds and whatever key or range is asked for.
C14_UnknownTable ==
    (rd.op \in {"read", "read_many", "iter", "iter_read", "iter_read_many"}
        /\ rd.table = "missing") =>
        rd.kind = "unknown_table"

\* C15 (not-started error): on an Iter on which Iter.next was never called,
\* Iter.read and Iter.read_many return the not-started error and read
\* nothing from a file.
C15_NotStarted ==
    (rd.op \in {"iter_read", "iter_read_many"} /\ it.live /\ ~it.started) =>
        /\ rd.kind = "not_started"
        /\ rd.buf = <<>>

\* C15: Iter.read_many was refused on a fresh iterator over a store whose
\* first record has a payload in the table asked for.
C15_Witness ==
    /\ rd.op = "iter_read_many"
    /\ rd.kind = "not_started"
    /\ it.live
    /\ ~it.started
    /\ Len(seen) >= 1
    /\ TablePosition(rd.table) # 0
    /\ Len(seen[1].values[TablePosition(rd.table)]) > 0

(***************************************************************************)
(* Properties of open() on any directory, stated for SpecOpen.             *)
(***************************************************************************)
\* The first n entries of a keys or offsets file.
EntriesOf(file, n) == [i \in 1..n |-> EntryAt(file, i - 1)]

\* The count in the length file, a u64, and whether a file holds 8 bytes for
\* each of that many entries.
DiskCount == U64At(lengthFile, 0)
HoldsCount(file) ==
    /\ DiskCount[1] < 8192
    /\ ~U64Less(U64(Len(file)), Times8(DiskCount))

\* What makes open() fail, N being the count in the length file: a keys or
\* offsets file shorter than 8*N bytes or not non-decreasing in its first N
\* entries, or a data file smaller than its table's last offset.
RecoveryRejects ==
    \/ ~HoldsCount(keysFile)
    \/ \E t \in Tables : ~HoldsCount(offsetsFile[t])
    \/ ~Sorted(EntriesOf(keysFile, DiskLength))
    \/ \E t \in Tables :
          \/ ~Sorted(EntriesOf(offsetsFile[t], DiskLength))
          \/ Len(dataFile[t]) < LastOr0(EntriesOf(offsetsFile[t], DiskLength))

\* What open() loads when it succeeds: the first N entries of each file,
\* whatever bytes follow them, with length = N and write_offsets[t] the last
\* offset of t, 0 when N = 0.
RecoveryLoads ==
    /\ length = DiskLength
    /\ keys = EntriesOf(keysFile, DiskLength)
    /\ \A t \in Tables :
          /\ table_offsets[t] = EntriesOf(offsetsFile[t], DiskLength)
          /\ write_offsets[t] = LastOr0(table_offsets[t])
          /\ (DiskLength = 0) => (write_offsets[t] = 0)
    /\ \A env \in Envs :
          open(lengthFile, keysFile, offsetsFile, dataFile, env)
              = open(lengthFile,
                     SubSeq(keysFile, 1, 8 * DiskLength),
                     [t \in Tables |->
                         SubSeq(offsetsFile[t], 1, 8 * DiskLength)],
                     dataFile, env)

\* C16 (recovery validation): once open() has been called it has returned:
\* an error exactly when a keys or offsets file holds fewer than 8*N bytes
\* or is not non-decreasing in its first N entries or a data file is smaller
\* than its table's last offset; otherwise Ok with the first N entries of
\* each file loaded, whatever bytes follow them, length = N and
\* write_offsets[t] the last offset of t, 0 when N = 0.
C16_RecoveryValidation ==
    (outcome # "none") =>
        /\ outcome \in {"open_ok", "open_err"}
        /\ (outcome = "open_ok") = opened
        /\ opened = ~RecoveryRejects
        /\ opened => RecoveryLoads

\* Whenever open() returns, Ok or Err, it returns what C16 states.
RecoveryValidWhenReturned ==
    (outcome \in {"open_ok", "open_err"}) =>
        /\ (outcome = "open_ok") = opened
        /\ opened = ~RecoveryRejects
        /\ opened => RecoveryLoads

\* open() returns for every count below 2^31 - 1 of SpecOpen.
ReturnsOnSmallCounts ==
    (outcome # "none" /\ Fits(DiskCount) /\ AsInt(DiskCount) <= MaxLen) =>
        outcome \in {"open_ok", "open_err"}

(***************************************************************************)
(* C17. Once Writer::close has returned Ok, the keys file handle, every    *)
(* table's offsets file handle and every table's data file handle have     *)
(* been closed. Stated for SpecHandles.                                    *)
(***************************************************************************)
C17_WriterCloseReleases ==
    (rd.op = "writer_close" /\ rd.kind = "ok") =>
        /\ handles.keys_file = "closed"
        /\ \A t \in Tables : handles.table_offsets_files[t] = "closed"
        /\ \A t \in Tables : handles.table_files[t] = "closed"

(***************************************************************************)
(* C18. Reader::close panics when an Iter made from the Reader or a clone  *)
(* of the Reader is still alive, and leaves the handles open; otherwise it *)
(* closes every table data-file handle. No handle that a live Reader or    *)
(* Iter holds is ever closed. Stated for SpecHandles.                      *)
(***************************************************************************)
C18_HeldIsOpen ==
    \A g \in ReaderGroups, t \in Tables :
        StrongCount(g, t) >= 1 => handles.readers[g].files[t] = "open"

\* The files of every Reader stay as they are.
C18_FilesKept ==
    \A g \in ReaderGroups : handles'.readers[g].files = handles.readers[g].files

C18_Step ==
    /\ (rd'.op = "reader_close" /\ rd'.kind = "panic") =>
           /\ \E g \in ReaderGroups :
                  /\ \E t \in Tables : StrongCount(g, t) > 1
                  /\ handles'.readers[g].count = handles.readers[g].count - 1
           /\ C18_FilesKept
    /\ \A g \in ReaderGroups :
           /\ (handles'.readers[g].call = "close"
                   /\ handles.readers[g].call # "close") =>
                  /\ \A t \in Tables : StrongCount(g, t) = 1
                  /\ ~(it.live /\ it.reader = g)
                  /\ C18_FilesKept
           /\ (handles.readers[g].count > handles'.readers[g].count
                   /\ \E t \in Tables : StrongCount(g, t) > 1) =>
                  /\ handles'.readers[g].call # "close"
                  /\ C18_FilesKept
           /\ (handles.readers[g].call = "close"
                   /\ handles'.readers[g].call # "close") =>
                  /\ rd'.op = "reader_close" /\ rd'.kind = "ok"
                  /\ \A t \in Tables : handles'.readers[g].files[t] = "closed"

\* C18 (exclusive close): a handle that a Reader or Iter holds is open in
\* every state, and every step of Reader::close is as described above.
C18_ExclusiveClose == [](C18_HeldIsOpen) /\ [][C18_Step]_vars

\* C18: Reader::close panicked while an Iter made from the Reader was alive,
\* the handles are open, and a Reader made by a second make has been closed.
C18_Witness ==
    /\ rd.op = "reader_close"
    /\ rd.kind = "panic"
    /\ it.live
    /\ it.phase = "ready"
    /\ \A t \in Tables : handles.readers[it.reader].files[t] = "open"
    /\ \E g \in ReaderGroups :
           \A t \in Tables : handles.readers[g].files[t] = "closed"

(***************************************************************************)
(* C19. As stated: Reader::iter returns an iterator only if some committed *)
(* key is strictly greater than from; when the last committed key equals   *)
(* from it returns None. Stated for SpecReader.                            *)
(***************************************************************************)
C19_ExclusiveLower ==
    (rd.op = "iter" /\ rd.kind = "iter") =>
        \E i \in 1..Len(keys) : keys[i] > rd.key

(***************************************************************************)
(* C20. On a store with no committed record Reader::read and Reader::iter  *)
(* return None; on a non-empty store Reader::iter returns None whenever    *)
(* from is greater than the last committed key; and an iterator made with  *)
(* to greater than the last committed key is the iterator made with to     *)
(* equal to it. Stated for SpecReader.                                     *)
(***************************************************************************)
C20_Empty ==
    (rd.op \in {"read", "iter"} /\ Len(keys) = 0) => rd.kind = "none"

C20_FromPastLast ==
    (Len(keys) >= 1) =>
        /\ (rd.op = "iter" /\ rd.key > keys[Len(keys)]) => rd.kind = "none"
        /\ it.live => it.from <= keys[Len(keys)]

C20_ToClamp ==
    (it.live /\ it.phase = "ready" /\ ~it.started /\ it.n = Len(keys)
        /\ it.param_to > keys[Len(keys)]) =>
        it = [BuildIter(it.reader, it.from, keys[Len(keys)], it.table, it.pos)
                 EXCEPT !.param_to = it.param_to]

\* C20 (boundaries): the three parts above hold in every state.
C20_Boundaries == C20_Empty /\ C20_FromPastLast /\ C20_ToClamp

(***************************************************************************)
(* C21. Stop rule of the range iterator. With to' = min(params.to, last    *)
(* key at construction) and p the start index, Iter::next returns None as  *)
(* soon as the key yielded before (at first keys[p-1], or 0 when p = 0) is *)
(* >= to', and otherwise yields the next key of the snapshot, also when    *)
(* that key is greater than params.to. Stated for SpecReader.              *)
(***************************************************************************)
\* The key yielded before: the one yielded last, or the start.
C21_PrevYielded ==
    IF Len(it.yielded) > 0 THEN it.yielded[Len(it.yielded)].key
    ELSE IF it.pos = 0 THEN 0 ELSE keys[it.pos]

C21_State ==
    (it.live /\ it.phase = "ready") =>
        /\ it.to = Min(it.param_to, keys[it.n])
        /\ it.current_key = C21_PrevYielded

\* A step in which a call of Iter::next returned for the first time,
\* returned something else than the call before, or suspended at its read.
C21_NextStep ==
    /\ it.live /\ it.phase = "ready" /\ it'.live
    /\ \/ it'.started # it.started
       \/ it'.last # it.last
       \/ it'.yielded # it.yielded
       \/ it'.phase # it.phase

\* The call returns None when the key yielded before is >= to', and
\* otherwise takes the next key of the snapshot, which it yields at once or,
\* streaming, when its read is done.
C21_Step ==
    C21_NextStep =>
        IF C21_PrevYielded >= Min(it.param_to, keys[it.n])
        THEN /\ it'.last = "none"
             /\ it'.yielded = it.yielded
        ELSE \/ /\ it'.last = "some"
                /\ Len(it'.yielded) = Len(it.yielded) + 1
                /\ it'.yielded[Len(it'.yielded)].key
                       = keys[it.pos + Len(it.yielded) + 1]
             \/ /\ it'.phase = "reading"
                /\ it'.yielded = it.yielded
                /\ it'.pending.key = keys[it.pos + Len(it.yielded) + 1]

\* C21 (stop rule): the iterator's to and current key are as described above
\* in every state, and every Iter.next stops or yields accordingly.
C21_StopRule == [](C21_State) /\ [][C21_Step]_vars

\* The terminal test as Iter::next has it: on the key the last call pulled,
\* yielded or not.
PulledKey ==
    IF it.keys.i = 0 THEN 0 ELSE keys[it.keys.i]

StopRuleOnPulled ==
    (it.live /\ it.phase = "ready") =>
        /\ it.to = Min(it.param_to, keys[it.n])
        /\ it.current_key = PulledKey

(***************************************************************************)
(* C22. Previous-key chaining. Every item Iter::next yields is a pair      *)
(* (prev, key): key is the key of the yielded record, prev the key yielded *)
(* by the call before or, for the first item, keys[p-1] when the start     *)
(* index p > 0 and 0 when p = 0; and prev <= key. Stated for SpecChain.    *)
(***************************************************************************)
C22_Chained ==
    (it.live /\ it.phase = "ready") =>
        \A j \in 1..Len(it.yielded) :
            /\ YieldedIdx[j] = it.pos + j
            /\ it.yielded[j].key = keys[YieldedIdx[j]]
            /\ it.yielded[j].prev =
                   IF j > 1 THEN it.yielded[j - 1].key
                   ELSE IF it.pos = 0 THEN 0 ELSE keys[it.pos]

C22_Ordered ==
    (it.live /\ it.phase = "ready") =>
        \A j \in 1..Len(it.yielded) : it.yielded[j].prev <= it.yielded[j].key

\* C22 (prev-key chaining): the yielded pairs are chained as described above
\* and every pair has prev <= key.
C22_PrevKeyChaining == C22_Chained /\ C22_Ordered

(***************************************************************************)
(* C23. Offset invariants. After open and after any sequence of appends,   *)
(* successful or failed, for every table t the in-memory offsets sequence  *)
(* is non-decreasing, its entry i is the sum of the payload lengths of the *)
(* records 0..i for t, write_offsets[t] is its last entry (0 when empty),  *)
(* and the data file of t holds at least write_offsets[t] bytes. Stated    *)
(* for SpecTorn, in every state in which the store is open.                *)
(***************************************************************************)
RECURSIVE C23_SumLens(_, _)
C23_SumLens(t, i) ==
    IF i = 0 THEN 0 ELSE C23_SumLens(t, i - 1) + Len(hist[i].values[t])

\* C23 (offset invariants): the offsets are the running sums of the payload
\* lengths, as described above, in every state.
C23_OffsetInvariants ==
    opened =>
        \A t \in Tables :
            LET o == table_offsets[t]
            IN  /\ Len(o) <= Len(hist)
                /\ \A i \in 1..Len(o) : o[i] = C23_SumLens(t, i)
                /\ \A i \in 2..Len(o) : o[i - 1] <= o[i]
                /\ write_offsets[t] = IF Len(o) = 0 THEN 0 ELSE o[Len(o)]
                /\ Len(dataFile[t]) >= write_offsets[t]

(***************************************************************************)
(* C24. Aligned write helper. When read_write_at(file, data, pos) returns  *)
(* Ok the file bytes [pos, pos+len(data)) equal data and the bytes         *)
(* [align_down(pos), pos) are those of before the call; when the read of   *)
(* the prefix returns fewer than pos - align_down(pos) bytes it returns an *)
(* error and writes nothing. Stated for SpecRw.                            *)
(***************************************************************************)
C24_Step ==
    (outcome = "none" /\ rd'.op = "read_write_at") =>
        LET pos == rd'.key
            data == rd'.buf
            write_pos == align_down(pos)
            prefix == read_at(keysFile, write_pos, pos - write_pos)
        IN  /\ outcome' \in {"ok", "err"}
            /\ Known(prefix)
            /\ (outcome' = "ok") =>
                   /\ Len(keysFile') >= pos + Len(data)
                   /\ SubSeq(keysFile', pos + 1, pos + Len(data)) = data
                   /\ Len(prefix) = pos - write_pos
                   /\ SubSeq(keysFile', write_pos + 1, pos) = prefix
            /\ (Len(prefix) < pos - write_pos) =>
                   /\ outcome' = "err"
                   /\ keysFile' = keysFile

\* C24 (aligned write): every read_write_at call is as described above.
C24_AlignedWrite == [][C24_Step]_vars

\* C24: a write of some bytes at an unaligned position in the second block
\* returned Ok and left a file that is not only the data.
C24_Witness ==
    /\ rd.op = "read_write_at"
    /\ outcome = "ok"
    /\ rd.key > BlockSize
    /\ rd.key % BlockSize # 0
    /\ Len(rd.buf) > 1
    /\ keysFile[rd.key] = RwFile(rd.key)[rd.key]

(***************************************************************************)
(* C25. Append never modifies committed bytes. In every step of an append  *)
(* on a store with N committed records, the N the length file holds, the   *)
(* first 8*N bytes of the keys file, the first 8*N bytes of every offsets  *)
(* file and every data file up to the end of record N stay as they are.    *)
(* Stated for SpecFrame.                                                   *)
(***************************************************************************)
\* The end of the last committed record in the data file of table t.
CommittedEnd(t) ==
    IF DiskLength = 0 THEN 0 ELSE EntryAt(offsetsFile[t], DiskLength - 1)

C25_Step ==
    /\ SubSeq(keysFile', 1, 8 * DiskLength) = SubSeq(keysFile, 1, 8 * DiskLength)
    /\ \A t \in Tables :
          /\ SubSeq(offsetsFile'[t], 1, 8 * DiskLength)
                 = SubSeq(offsetsFile[t], 1, 8 * DiskLength)
          /\ SubSeq(dataFile'[t], 1, CommittedEnd(t))
                 = SubSeq(dataFile[t], 1, CommittedEnd(t))

\* C25 (append never modifies committed bytes): no step changes a byte of
\* the N records the length file counts.
C25_CommittedBytesUnchanged == [][C25_Step]_vars

\* The same of the records the Writer counts: length and write_offsets.
WriterFrame ==
    /\ Known(SubSeq(keysFile, 1, 8 * length))
    /\ SubSeq(keysFile', 1, 8 * length) = SubSeq(keysFile, 1, 8 * length)
    /\ \A t \in Tables :
          /\ Known(SubSeq(offsetsFile[t], 1, 8 * length))
          /\ SubSeq(offsetsFile'[t], 1, 8 * length)
                 = SubSeq(offsetsFile[t], 1, 8 * length)
          /\ Known(SubSeq(dataFile[t], 1, write_offsets[t]))
          /\ SubSeq(dataFile'[t], 1, write_offsets[t])
                 = SubSeq(dataFile[t], 1, write_offsets[t])

WriterBytesUnchanged == [][WriterFrame]_vars

(***************************************************************************)
(* C26. Started only after a record. An Iter is started only once          *)
(* Iter::next has returned a record: while it has yielded none, Iter::read *)
(* and Iter::read_many return the not-started error and read nothing.      *)
(* Stated for SpecTables.                                                  *)
(***************************************************************************)
C26_StartedAfterRecord ==
    (it.live /\ it.phase = "ready" /\ Len(it.yielded) = 0) =>
        /\ ~it.started
        /\ (rd.op \in {"iter_read", "iter_read_many"}) =>
               /\ rd.kind = "not_started"
               /\ rd.buf = <<>>

(***************************************************************************)
(* C27. Iterator termination. An Iter made at start index p over k         *)
(* published records yields at most k - p records, whatever the Writer     *)
(* appends during the iteration: every Iter::next call that does not       *)
(* return None takes one of the k - p keys of the snapshot, so at most     *)
(* k - p calls return something else; and once Iter::next has returned     *)
(* None every later call returns None. Stated for SpecInterleave.          *)
(***************************************************************************)
\* The calls of Iter::next that took a key: those that yielded a record,
\* those whose read failed or was dropped, and the one suspended at its read.
C27_Pulled ==
    Len(it.yielded) + Len(it.skipped) + (IF it.phase = "reading" THEN 1 ELSE 0)

C27_Bounded ==
    (it.live /\ it.phase \in {"ready", "reading"}) =>
        /\ Len(it.yielded) <= it.n - it.pos
        /\ C27_Pulled = it.keys.i - it.pos
        /\ it.keys.i <= it.n
        /\ it.last # "panic"

\* A call of Iter::next returns None or takes a key.
C27_CallStep ==
    (it.live /\ it.phase = "ready" /\ it'.live /\ it' # it) =>
        \/ it'.last = "none" /\ it'.yielded = it.yielded /\ it'.phase = "ready"
        \/ it'.keys.i = it.keys.i + 1

C27_NoneStays ==
    (it.live /\ it.phase = "ready" /\ it.last = "none" /\ it'.live) =>
        /\ it'.last = "none"
        /\ it'.phase = "ready"
        /\ it'.yielded = it.yielded

\* C27 (termination): every state and every Iter.next is as described above.
C27_Termination ==
    [](C27_Bounded) /\ [][C27_CallStep /\ C27_NoneStays]_vars

\* C27: an iterator has yielded all k - p records of its snapshot and has
\* returned None, although the Writer has published since then a record
\* whose key lies between from and to.
C27_Witness ==
    /\ it.live
    /\ it.phase = "ready"
    /\ it.last = "none"
    /\ it.n - it.pos >= 1
    /\ Len(it.yielded) = it.n - it.pos
    /\ Len(keys) > it.n
    /\ it.from <= keys[it.n + 1]
    /\ keys[it.n + 1] <= it.param_to

====
